---------------------------- MODULE Spec2Model ----------------------------
(***************************************************************************)
(* Payroll ledger (PagoPersonal) and session ledger (Sesion) of the        *)
(* clinic backend, as state machines over the document store.              *)
(*                                                                         *)
(* Money is counted in whole cents: 1.00 is 100, the 0.5 tolerance is 50.  *)
(* Products with the ratios 0.30 / 0.20 / 0.50 are kept in hundredths of   *)
(* a cent and rounded with Math.round's rule (half goes up).               *)
(* A Date is [dia, ms]: days since 1970-01-01 (UTC) and milliseconds of    *)
(* the day; the calendar fields are computed from it.                      *)
(* The free-text field observaciones of PagoPersonal is left out.          *)
(***************************************************************************)
EXTENDS Integers, Sequences, FiniteSets, TLC

VARIABLES
    pagos,        \* stored PagoPersonal documents
    pagoSeq,      \* number of PagoPersonal documents created so far
    pagoOps,      \* number of payroll operations run so far
    respuesta,    \* what the last payroll operation returned or threw
    planilla,     \* the last month-sheet returned
    calc,         \* the calculator's last input and output
    periodo,      \* the period resolver's last input and output
    sesiones,     \* stored Sesion documents
    sesionSeq,    \* number of Sesion documents created so far
    sesionOps,    \* number of session operations run so far
    estadisticas, \* each patient's stored estadisticas
    resSesion,    \* what the last session operation returned or threw
    enVuelo       \* the calls in flight, each with what it has read so far

varsPago == <<pagos, pagoSeq, pagoOps, respuesta, planilla>>
varsSesion == <<sesiones, sesionSeq, sesionOps, estadisticas, resSesion>>
vars == <<pagos, pagoSeq, pagoOps, respuesta, planilla, calc, periodo,
          sesiones, sesionSeq, sesionOps, estadisticas, resSesion, enVuelo>>

\* the calls that may be in flight at once
Llamadas == {1, 2}

SinLlamadas == [c \in Llamadas |-> [pc |-> "inactiva"]]

-----------------------------------------------------------------------------
(* Bounds *)

\* PagoPersonal documents ever created, and payroll operations run
MaxPagos == 2
MaxOps == 3
\* Sesion documents ever created, and session operations run
MaxSesiones == 3
MaxSesOps == 3

-----------------------------------------------------------------------------
(* Dates: the runtime's Date, UTC fields *)

MsDia == 24 * 60 * 60 * 1000

\* Date.UTC(y, m, d): days since the epoch of a calendar date (m in 1..12),
\* as a function of <<y, m, d>>
DiasDesdeCivil ==
    [c \in Int \X Int \X Int |->
        LET yy  == IF c[2] <= 2 THEN c[1] - 1 ELSE c[1]
            era == yy \div 400
            yoe == yy - era * 400
            mp  == IF c[2] > 2 THEN c[2] - 3 ELSE c[2] + 9
            doy == (153 * mp + 2) \div 5 + c[3] - 1
            doe == yoe * 365 + yoe \div 4 - yoe \div 100 + doy
        IN  era * 146097 + doe - 719468]

\* the calendar fields from the era, the year and day of the era's year
\* (March first) and the month counted from March
CivilDeMes(era, yoe, doy, mp) ==
    [y |-> yoe + era * 400 + (IF mp < 10 THEN 0 ELSE 1),
     m |-> IF mp < 10 THEN mp + 3 ELSE mp - 9,
     d |-> doy - (153 * mp + 2) \div 5 + 1]

CivilDeDiaDelAnio(era, yoe, doy) ==
    CivilDeMes(era, yoe, doy, (5 * doy + 2) \div 153)

CivilDeAnioDeEra(era, doe, yoe) ==
    CivilDeDiaDelAnio(era, yoe,
                      doe - (365 * yoe + yoe \div 4 - yoe \div 100))

CivilDeDiaDeEra(era, doe) ==
    CivilDeAnioDeEra(era, doe,
        (doe - doe \div 1460 + doe \div 36524 - doe \div 146096) \div 365)

CivilDeEra(z, era) == CivilDeDiaDeEra(era, z - era * 146097)

\* the UTC calendar fields of a day number
CivilDesdeDias ==
    [z0 \in Int |-> CivilDeEra(z0 + 719468, (z0 + 719468) \div 146097)]

getUTCFullYear(fecha) == CivilDesdeDias[fecha.dia].y
\* 0-based, as the runtime returns it
getUTCMonth(fecha) == CivilDesdeDias[fecha.dia].m - 1
getUTCDate(fecha) == CivilDesdeDias[fecha.dia].d
\* 0 = Sunday; 1970-01-01 was a Thursday
getUTCDay(fecha) == (fecha.dia + 4) % 7

EsBisiesto(y) == (y % 4 = 0 /\ y % 100 # 0) \/ y % 400 = 0

DiasDelMes(y, m) ==
    IF m = 2 THEN (IF EsBisiesto(y) THEN 29 ELSE 28)
    ELSE IF m \in {4, 6, 9, 11} THEN 30 ELSE 31

\* A date as a caller writes it: absent, an ISO date-time, or unparseable text
FechaAusente == [t |-> "ausente", y |-> 0, m |-> 0, d |-> 0, ms |-> 0]
FechaTexto == [t |-> "texto", y |-> 0, m |-> 0, d |-> 0, ms |-> 0]
Iso(y, m, d, ms) == [t |-> "iso", y |-> y, m |-> m, d |-> d, ms |-> ms]

FechaInvalida == [dia |-> 0, ms |-> -1]

\* new Date(x): the time value, or Invalid Date
NuevaFecha(x) ==
    IF x.t = "iso" /\ x.m \in 1..12 /\ x.d \in 1..DiasDelMes(x.y, x.m)
       /\ x.ms \in 0..(MsDia - 1)
    THEN [dia |-> DiasDesdeCivil[<<x.y, x.m, x.d>>], ms |-> x.ms]
    ELSE FechaInvalida

\* Number.isNaN(fecha.getTime())
EsFechaInvalida(f) == f.ms < 0

-----------------------------------------------------------------------------
(* Optional and non-numeric inputs *)

Nada == [t |-> "ausente", v |-> 0]
Num(n) == [t |-> "num", v |-> n]
\* a value Number() turns into NaN
Texto == [t |-> "texto", v |-> 0]

\* the strings of an absent field
Indefinido == "undefined"

-----------------------------------------------------------------------------
(* PagoPersonalService: constants and pure helpers *)

ESTADOS_VALIDOS == {"pendiente", "procesado", "pagado", "cancelado"}

DIAS_SEMANA ==
    <<"domingo", "lunes", "martes", "miercoles", "jueves", "viernes", "sabado">>

EnDiasSemana(s) == \E i \in 1..Len(DIAS_SEMANA) : DIAS_SEMANA[i] = s

Abs(x) == IF x < 0 THEN -x ELSE x

Min(a, b) == IF a < b THEN a ELSE b

\* Math.round(v / 100) of a value in hundredths of a cent, in cents
MathRound(v) == (v + 50) \div 100

\* _redondear(valor): Math.round((valor + Number.EPSILON) * 100) / 100
redondear(v) == MathRound(v)

\* the tolerance 0.5, in cents
Tolerancia == 50

SinDistribucion == [dada |-> FALSE, farfan |-> 0, mica |-> 0, ffma |-> 0]
Dist(a, b, c) == [dada |-> TRUE, farfan |-> a, mica |-> b, ffma |-> c]
Partes(a, b, c) == [farfan |-> a, mica |-> b, ffma |-> c]

SumaPartes(p) == p.farfan + p.mica + p.ffma

\* faulty variant: the largest share is rounded on its own as 0.50 * monto
calcularDistribucionIndep(monto, distribucion) ==
    LET total == SumaPartes(distribucion)
        necesitaRecalculo ==
            monto > 0 /\ (total = 0 \/ Abs(total - monto) > Tolerancia)
    IN  IF necesitaRecalculo
        THEN Partes(redondear(monto * 30), redondear(monto * 20),
                    redondear(monto * 50))
        ELSE Partes(distribucion.farfan, distribucion.mica, distribucion.ffma)

\* _calcularDistribucion(monto, distribucion = {}); an absent distribution
\* and absent shares count as 0
calcularDistribucion(monto, distribucion) ==
    LET total == SumaPartes(distribucion)
        necesitaRecalculo ==
            monto > 0 /\ (total = 0 \/ Abs(total - monto) > Tolerancia)
        farfan == redondear(monto * 30)
        mica == redondear(monto * 20)
    IN  IF necesitaRecalculo
        THEN Partes(farfan, mica, redondear((monto - farfan - mica) * 100))
        ELSE Partes(distribucion.farfan, distribucion.mica, distribucion.ffma)

\* Math.ceil(dia / 7)
Techo7(dia) == (dia + 6) \div 7

\* faulty variant: the bucket is taken with Math.floor and shifted
obtenerSemanaDelMesPiso(fecha) == Min(5, getUTCDate(fecha) \div 7 + 1)

obtenerSemanaDelMes(fecha) == Min(5, Techo7(getUTCDate(fecha)))

obtenerDiaSemana(fecha) == DIAS_SEMANA[getUTCDay(fecha) + 1]

-----------------------------------------------------------------------------
(* PagoPersonal: schema, save hooks, unique index *)

DIAS_ENUM ==
    {"lunes", "martes", "miercoles", "jueves", "viernes", "sabado", "domingo"}

ESTADOS_ENUM == {"pendiente", "procesado", "pagado", "cancelado"}

\* findById: the stored document with the given id, when there is one
Registro(store, id) == CHOOSE p \in store : p.id = id

Existe(store, id) == \E p \in store : p.id = id

\* the natural key of the unique index
Clave(p) == <<p.anio, p.mes, p.semana, p.fecha>>

\* the schema's validators, run on the paths a save has modified (all the
\* paths of a new document); prev is the stored document, or doc when new
Validar(doc, prev, esNuevo) ==
    LET mod(a, b) == esNuevo \/ a # b
    IN  /\ mod(doc.mes, prev.mes) => doc.mes \in 1..12
        /\ mod(doc.anio, prev.anio) => doc.anio >= 2000
        /\ mod(doc.semana, prev.semana) => doc.semana \in 1..5
        /\ mod(doc.diaSemana, prev.diaSemana) => doc.diaSemana \in DIAS_ENUM
        /\ mod(doc.monto, prev.monto) => doc.monto >= 0
        /\ mod(doc.distribucion.farfan, prev.distribucion.farfan)
              => doc.distribucion.farfan >= 0
        /\ mod(doc.distribucion.mica, prev.distribucion.mica)
              => doc.distribucion.mica >= 0
        /\ mod(doc.distribucion.ffma, prev.distribucion.ffma)
              => doc.distribucion.ffma >= 0
        /\ mod(doc.estado, prev.estado) => doc.estado \in ESTADOS_ENUM
        /\ doc.creadoPor # Indefinido

\* faulty variant: the hook does not move the difference into ffma
preSaveSinAjuste(doc) ==
    IF doc.monto > 0
    THEN LET d0 == doc.distribucion
             d1 == IF d0.farfan = 0 /\ d0.mica = 0 /\ d0.ffma = 0
                   THEN Partes(MathRound(doc.monto * 30),
                               MathRound(doc.monto * 20),
                               MathRound(doc.monto * 50))
                   ELSE d0
         IN  [doc EXCEPT !.distribucion = d1]
    ELSE doc

\* pagoPersonalSchema.pre('save')
preSave(doc) ==
    IF doc.monto > 0
    THEN LET d0 == doc.distribucion
             d1 == IF d0.farfan = 0 /\ d0.mica = 0 /\ d0.ffma = 0
                   THEN Partes(MathRound(doc.monto * 30),
                               MathRound(doc.monto * 20),
                               MathRound(doc.monto * 50))
                   ELSE d0
             total == SumaPartes(d1)
             diferencia == doc.monto - total
             d2 == IF total # doc.monto
                   THEN [d1 EXCEPT !.ffma = MathRound((d1.ffma + diferencia) * 100)]
                   ELSE d1
         IN  [doc EXCEPT !.distribucion = d2]
    ELSE doc

\* faulty variant: the store has no unique index
IndiceUnicoAusente(store, doc) == TRUE

\* the unique index {anio, mes, semana, fecha} admits the document
IndiceUnico(store, doc) ==
    \A p \in store : p.id # doc.id => Clave(p) # Clave(doc)

\* the write of a validated and hooked document: refused by the unique index
\* or stored in place of the document with its id
Escribir(store, d) ==
    IF ~IndiceUnico(store, d)
    THEN [ok |-> FALSE, error |-> "duplicado", store |-> store, doc |-> d]
    ELSE [ok |-> TRUE, error |-> "",
          store |-> {p \in store : p.id # d.id} \cup {d}, doc |-> d]

\* registro.save(): validation, the pre-save hook, then the write
Guardar(store, doc, prev, esNuevo) ==
    IF ~Validar(doc, prev, esNuevo)
    THEN [ok |-> FALSE, error |-> "validacion", store |-> store, doc |-> doc]
    ELSE Escribir(store, preSave(doc))

-----------------------------------------------------------------------------
(* PagoPersonalService: operations *)

Usuarios == {"u1", "u2"}

NumeroDe(x, defecto) == IF x.t = "ausente" THEN defecto ELSE x.v

\* the error _normalizarDatos throws for a monto, diaSemana or estado
errorDeCampos(montoNaN, monto, diaSemana, estado) ==
    IF montoNaN \/ monto < 0 THEN "monto"
    ELSE IF ~EnDiasSemana(diaSemana) THEN "diaSemana"
    ELSE IF estado \notin ESTADOS_VALIDOS THEN "estado"
    ELSE ""

\* the fields _normalizarDatos returns once fecha is a valid date
normalizados(datos, fecha, monto, error) ==
    IF error # ""
    THEN [ok |-> FALSE, error |-> error, anio |-> 0, mes |-> 0, semana |-> 0,
          diaSemana |-> Indefinido, fecha |-> FechaInvalida, monto |-> 0,
          distribucion |-> Partes(0, 0, 0), estado |-> Indefinido]
    ELSE [ok |-> TRUE, error |-> "",
          anio |-> NumeroDe(datos.anio, getUTCFullYear(fecha)),
          mes |-> NumeroDe(datos.mes, getUTCMonth(fecha) + 1),
          semana |-> NumeroDe(datos.semana, obtenerSemanaDelMes(fecha)),
          diaSemana |-> IF datos.diaSemana = Indefinido
                        THEN obtenerDiaSemana(fecha) ELSE datos.diaSemana,
          fecha |-> fecha, monto |-> monto,
          distribucion |-> calcularDistribucion(monto, datos.distribucion),
          estado |-> IF datos.estado = Indefinido THEN "pendiente"
                     ELSE datos.estado]

\* _normalizarDatos with fecha already parsed
normalizarConFecha(datos, fecha) ==
    normalizados(datos, fecha, NumeroDe(datos.monto, 0),
        IF EsFechaInvalida(fecha) THEN "fecha"
        ELSE errorDeCampos(datos.monto.t = "texto", NumeroDe(datos.monto, 0),
                IF datos.diaSemana = Indefinido
                THEN obtenerDiaSemana(fecha) ELSE datos.diaSemana,
                IF datos.estado = Indefinido THEN "pendiente"
                ELSE datos.estado))

\* _normalizarDatos(datos): the normalised fields, or the error thrown
normalizarDatos(datos) ==
    normalizarConFecha(datos,
        IF datos.fecha.t = "ausente" THEN FechaInvalida
        ELSE NuevaFecha(datos.fecha))

\* faulty variant: the update also takes the caller as the creator
registroSetPisaCreador(registro, n, usuarioId) ==
    [registro EXCEPT !.anio = n.anio, !.mes = n.mes,
        !.semana = n.semana, !.diaSemana = n.diaSemana,
        !.fecha = n.fecha, !.monto = n.monto,
        !.distribucion = n.distribucion,
        !.estado = n.estado, !.creadoPor = usuarioId,
        !.modificadoPor = usuarioId]

\* registro.set({...normalizados, modificadoPor: usuarioId})
registroSet(registro, n, usuarioId) ==
    [registro EXCEPT !.anio = n.anio, !.mes = n.mes,
        !.semana = n.semana, !.diaSemana = n.diaSemana,
        !.fecha = n.fecha, !.monto = n.monto,
        !.distribucion = n.distribucion,
        !.estado = n.estado, !.modificadoPor = usuarioId]

\* new PagoPersonal({...normalizados, creadoPor: usuarioId})
registroNuevo(id, n, usuarioId) ==
    [id |-> id, anio |-> n.anio, mes |-> n.mes,
     semana |-> n.semana, diaSemana |-> n.diaSemana,
     fecha |-> n.fecha, monto |-> n.monto,
     distribucion |-> n.distribucion, estado |-> n.estado,
     creadoPor |-> usuarioId, modificadoPor |-> Indefinido]

\* what _upsertRegistro returns after registro.save(), whose outcome is g
guardado(g, store, seq, esNuevo) ==
    IF g.ok
    THEN [ok |-> TRUE, error |-> "", store |-> g.store,
          seq |-> IF esNuevo THEN seq + 1 ELSE seq,
          esNuevo |-> esNuevo, id |-> g.doc.id]
    ELSE [ok |-> FALSE, error |-> g.error, store |-> store, seq |-> seq,
          esNuevo |-> FALSE, id |-> 0]

\* the branch of _upsertRegistro taken for the documents findOne(query) finds
upsertHallados(store, seq, n, usuarioId, hallados) ==
    IF hallados # {}
    THEN guardado(Guardar(store,
                          registroSet(CHOOSE p \in hallados : TRUE, n,
                                      usuarioId),
                          CHOOSE p \in hallados : TRUE, FALSE),
                  store, seq, FALSE)
    ELSE guardado(Guardar(store, registroNuevo(seq + 1, n, usuarioId),
                          registroNuevo(seq + 1, n, usuarioId), TRUE),
                  store, seq, TRUE)

\* _upsertRegistro once the data is normalised
upsertNormalizado(store, seq, n, usuarioId) ==
    IF ~n.ok
    THEN [ok |-> FALSE, error |-> n.error, store |-> store, seq |-> seq,
          esNuevo |-> FALSE, id |-> 0]
    ELSE upsertHallados(store, seq, n, usuarioId,
            {p \in store : Clave(p) = <<n.anio, n.mes, n.semana, n.fecha>>})

\* faulty variant: an update that supplies no estado keeps the stored one
upsertRegistroConservaEstado(store, seq, datos, usuarioId) ==
    LET n == normalizarDatos(datos)
        hallados ==
            {p \in store : Clave(p) = <<n.anio, n.mes, n.semana, n.fecha>>}
    IN  upsertNormalizado(store, seq,
            IF n.ok /\ datos.estado = Indefinido /\ hallados # {}
            THEN [n EXCEPT !.estado = (CHOOSE p \in hallados : TRUE).estado]
            ELSE n,
            usuarioId)

\* _upsertRegistro(datos, usuarioId) on a store whose id counter is seq:
\* the store and counter it leaves, the document and esNuevo, or the error
upsertRegistro(store, seq, datos, usuarioId) ==
    upsertNormalizado(store, seq, normalizarDatos(datos), usuarioId)

\* what an operation returns: success or the error thrown, with the caller's
\* usuario, monto and distribucion of a successful upsert
Resp(op, ok, error, creado, id, usuario, monto, distribucion) ==
    [op |-> op, ok |-> ok, error |-> error, creado |-> creado, id |-> id,
     usuario |-> usuario, monto |-> monto, distribucion |-> distribucion,
     creados |-> 0, actualizados |-> 0, total |-> 0]

RespInicial == Resp("", TRUE, "", FALSE, 0, Indefinido, 0, SinDistribucion)

PlanillaVacia ==
    [dada |-> FALSE, anio |-> 0, mes |-> 0, semanas |-> << >>,
     totales |-> [total |-> 0, distribucion |-> Partes(0, 0, 0)]]

\* crearOActualizarPago(datos, usuarioId)
crearOActualizarPago(datos, usuarioId) ==
    LET r == upsertRegistro(pagos, pagoSeq, datos, usuarioId)
    IN  /\ r.seq <= MaxPagos
        /\ pagoOps < MaxOps
        /\ pagoOps' = pagoOps + 1
        /\ pagos' = r.store
        /\ pagoSeq' = r.seq
        /\ respuesta' =
              IF r.ok
              THEN Resp("upsert", TRUE, "", r.esNuevo, r.id, usuarioId,
                        NumeroDe(datos.monto, 0), datos.distribucion)
                   @@ [estado |-> datos.estado,
                       previo |-> IF r.esNuevo THEN Indefinido
                                  ELSE Registro(pagos, r.id).estado]
              ELSE Resp("upsert", FALSE, r.error, FALSE, 0, Indefinido, 0,
                        SinDistribucion)
        /\ planilla' = PlanillaVacia
        /\ UNCHANGED <<calc, periodo, varsSesion, enVuelo>>

RECURSIVE procesarLoteTolerante(_, _, _, _, _, _)
\* faulty variant: an item that fails is skipped and the loop goes on
procesarLoteTolerante(store, seq, registros, usuarioId, i, cuenta) ==
    IF i > Len(registros)
    THEN [ok |-> TRUE, error |-> "", store |-> store, seq |-> seq,
          creados |-> cuenta.creados, actualizados |-> cuenta.actualizados,
          total |-> cuenta.creados + cuenta.actualizados, falla |-> 0]
    ELSE LET r == upsertRegistro(store, seq, registros[i], usuarioId)
         IN  IF ~r.ok
             THEN procesarLoteTolerante(store, seq, registros, usuarioId,
                                        i + 1, cuenta)
             ELSE procesarLoteTolerante(r.store, r.seq, registros, usuarioId,
                     i + 1,
                     IF r.esNuevo
                     THEN [cuenta EXCEPT !.creados = @ + 1]
                     ELSE [cuenta EXCEPT !.actualizados = @ + 1])

RECURSIVE procesarLote(_, _, _, _, _, _)
\* the loop of crearMultiplesPagos from item i on: each item is upserted on
\* the store the previous items left; the first error ends the call
procesarLote(store, seq, registros, usuarioId, i, cuenta) ==
    IF i > Len(registros)
    THEN [ok |-> TRUE, error |-> "", store |-> store, seq |-> seq,
          creados |-> cuenta.creados, actualizados |-> cuenta.actualizados,
          total |-> cuenta.creados + cuenta.actualizados, falla |-> 0]
    ELSE LET r == upsertRegistro(store, seq, registros[i], usuarioId)
         IN  IF ~r.ok
             THEN [ok |-> FALSE, error |-> r.error, store |-> store, seq |-> seq,
                   creados |-> cuenta.creados,
                   actualizados |-> cuenta.actualizados,
                   total |-> 0, falla |-> i]
             ELSE procesarLote(r.store, r.seq, registros, usuarioId, i + 1,
                     IF r.esNuevo
                     THEN [cuenta EXCEPT !.creados = @ + 1]
                     ELSE [cuenta EXCEPT !.actualizados = @ + 1])

\* crearMultiplesPagos(registros, usuarioId)
crearMultiplesPagos(registros, usuarioId) ==
    LET r == procesarLote(pagos, pagoSeq, registros, usuarioId, 1,
                          [creados |-> 0, actualizados |-> 0])
    IN  /\ r.seq <= MaxPagos
        /\ pagoOps < MaxOps
        /\ pagoOps' = pagoOps + 1
        /\ pagos' = r.store
        /\ pagoSeq' = r.seq
        /\ respuesta' =
              [Resp("lote", r.ok, r.error, FALSE, r.falla, usuarioId, 0,
                    SinDistribucion)
               EXCEPT !.creados = r.creados, !.actualizados = r.actualizados,
                      !.total = r.total] @@ [lote |-> registros]
        /\ planilla' = PlanillaVacia
        /\ UNCHANGED <<calc, periodo, varsSesion, enVuelo>>

\* !x of an optional number: absent or 0
Falsy(x) == x.t = "ausente" \/ (x.t = "num" /\ x.v = 0)

\* if (datos.fecha) { ... }: fecha and the period fields not given
aplicarFecha(registro, datos, nuevaFecha) ==
    [registro EXCEPT
        !.fecha = nuevaFecha,
        !.anio = IF Falsy(datos.anio) THEN getUTCFullYear(nuevaFecha) ELSE @,
        !.mes = IF Falsy(datos.mes) THEN getUTCMonth(nuevaFecha) + 1 ELSE @,
        !.semana = IF Falsy(datos.semana)
                   THEN obtenerSemanaDelMes(nuevaFecha) ELSE @,
        !.diaSemana = IF datos.diaSemana = Indefinido
                      THEN obtenerDiaSemana(nuevaFecha) ELSE @]

\* the period fields given explicitly
aplicarPeriodo(registro, datos) ==
    [registro EXCEPT
        !.anio = IF datos.anio.t # "ausente" THEN datos.anio.v ELSE @,
        !.mes = IF datos.mes.t # "ausente" THEN datos.mes.v ELSE @,
        !.semana = IF datos.semana.t # "ausente" THEN datos.semana.v ELSE @,
        !.diaSemana = IF datos.diaSemana # Indefinido
                      THEN datos.diaSemana ELSE @]

\* monto and distribucion: a given monto is split again, over the given
\* distribution or else the stored one; a distribution given alone is checked
\* against the stored monto
aplicarMonto(registro, datos) ==
    IF datos.monto.t # "ausente"
    THEN [registro EXCEPT
            !.monto = datos.monto.v,
            !.distribucion =
                calcularDistribucion(datos.monto.v,
                    IF datos.distribucion.dada
                    THEN datos.distribucion ELSE registro.distribucion)]
    ELSE IF datos.distribucion.dada
    THEN [registro EXCEPT !.distribucion =
                calcularDistribucion(registro.monto, datos.distribucion)]
    ELSE registro

aplicarEstado(registro, datos) ==
    IF datos.estado # Indefinido
    THEN [registro EXCEPT !.estado = datos.estado] ELSE registro

\* the error _aplicarActualizacion throws, "" when none
errorDeActualizacion(datos) ==
    IF datos.fecha.t # "ausente" /\ EsFechaInvalida(NuevaFecha(datos.fecha))
    THEN "fecha"
    ELSE IF datos.diaSemana # Indefinido /\ ~EnDiasSemana(datos.diaSemana)
    THEN "diaSemana"
    ELSE IF datos.monto.t # "ausente"
            /\ (datos.monto.t = "texto" \/ datos.monto.v < 0)
    THEN "monto"
    ELSE IF datos.estado # Indefinido /\ datos.estado \notin ESTADOS_VALIDOS
    THEN "estado"
    ELSE ""

\* _aplicarActualizacion(registro, datos): the record as mutated in memory,
\* or the error thrown
aplicarActualizacion(registro, datos) ==
    [ok |-> errorDeActualizacion(datos) = "",
     error |-> errorDeActualizacion(datos),
     doc |-> aplicarEstado(
                aplicarMonto(
                    aplicarPeriodo(
                        IF datos.fecha.t # "ausente"
                        THEN aplicarFecha(registro, datos,
                                          NuevaFecha(datos.fecha))
                        ELSE registro,
                        datos),
                    datos),
                datos)]

\* faulty variant: the fecha and period fields applied before a later field
\* fails are saved before the error is thrown
actualizarRegistroEscribeAntes(id, datos, usuarioId) ==
    LET hallados == {p \in pagos : p.id = id}
    IN  /\ pagoOps < MaxOps
        /\ pagoOps' = pagoOps + 1
        /\ planilla' = PlanillaVacia
        /\ pagoSeq' = pagoSeq
        /\ UNCHANGED <<calc, periodo, varsSesion, enVuelo>>
        /\ IF hallados = {}
           THEN /\ pagos' = pagos
                /\ respuesta' = Resp("actualizar", FALSE, "noEncontrado", FALSE,
                                     0, Indefinido, 0, SinDistribucion)
           ELSE LET registro == CHOOSE p \in hallados : TRUE
                    a == aplicarActualizacion(registro, datos)
                    doc == [a.doc EXCEPT !.modificadoPor = usuarioId]
                    g == Guardar(pagos, doc, registro, FALSE)
                    previo == IF datos.fecha.t # "ausente"
                                 /\ ~EsFechaInvalida(NuevaFecha(datos.fecha))
                              THEN aplicarFecha(registro, datos,
                                                NuevaFecha(datos.fecha))
                              ELSE registro
                IN  IF ~a.ok
                    THEN /\ pagos' = Guardar(pagos, previo, registro,
                                             FALSE).store
                         /\ respuesta' = Resp("actualizar", FALSE, a.error, FALSE,
                                              0, Indefinido, 0, SinDistribucion)
                                          @@ [datos |-> datos]
                    ELSE /\ pagos' = g.store
                         /\ respuesta' =
                               IF g.ok
                               THEN Resp("actualizar", TRUE, "", FALSE, id,
                                         usuarioId, 0, SinDistribucion)
                               ELSE Resp("actualizar", FALSE, g.error, FALSE, 0,
                                         Indefinido, 0, SinDistribucion)

\* actualizarRegistro(id, datosActualizar, usuarioId)
actualizarRegistro(id, datos, usuarioId) ==
    LET hallados == {p \in pagos : p.id = id}
    IN  /\ pagoOps < MaxOps
        /\ pagoOps' = pagoOps + 1
        /\ planilla' = PlanillaVacia
        /\ pagoSeq' = pagoSeq
        /\ UNCHANGED <<calc, periodo, varsSesion, enVuelo>>
        /\ IF hallados = {}
           THEN /\ pagos' = pagos
                /\ respuesta' = Resp("actualizar", FALSE, "noEncontrado", FALSE,
                                     0, Indefinido, 0, SinDistribucion)
           ELSE LET registro == CHOOSE p \in hallados : TRUE
                    a == aplicarActualizacion(registro, datos)
                    doc == [a.doc EXCEPT !.modificadoPor = usuarioId]
                    g == Guardar(pagos, doc, registro, FALSE)
                IN  IF ~a.ok
                    THEN /\ pagos' = pagos
                         /\ respuesta' = Resp("actualizar", FALSE, a.error, FALSE,
                                              0, Indefinido, 0, SinDistribucion)
                                          @@ [datos |-> datos]
                    ELSE /\ pagos' = g.store
                         /\ respuesta' =
                               IF g.ok
                               THEN Resp("actualizar", TRUE, "", FALSE, id,
                                         usuarioId, 0, SinDistribucion)
                               ELSE Resp("actualizar", FALSE, g.error, FALSE, 0,
                                         Indefinido, 0, SinDistribucion)

\* eliminarRegistro(id)
eliminarRegistro(id) ==
    /\ pagoOps < MaxOps
    /\ pagoOps' = pagoOps + 1
    /\ pagos' = {p \in pagos : p.id # id}
    /\ respuesta' =
          IF \E p \in pagos : p.id = id
          THEN Resp("eliminar", TRUE, "", FALSE, id, Indefinido, 0,
                    SinDistribucion)
          ELSE Resp("eliminar", FALSE, "noEncontrado", FALSE, 0, Indefinido, 0,
                    SinDistribucion)
    /\ planilla' = PlanillaVacia
    /\ UNCHANGED <<pagoSeq, calc, periodo, varsSesion, enVuelo>>

\* the update a save() of a found document sends: only the paths the call
\* has changed on its copy prev, on top of what is stored now
soloModificados(actual, doc, prev) ==
    LET m(campo) == IF doc[campo] # prev[campo] THEN doc[campo]
                    ELSE actual[campo]
        d(campo) == IF doc.distribucion[campo] # prev.distribucion[campo]
                    THEN doc.distribucion[campo]
                    ELSE actual.distribucion[campo]
    IN  [id |-> actual.id, anio |-> m("anio"), mes |-> m("mes"),
         semana |-> m("semana"), diaSemana |-> m("diaSemana"),
         fecha |-> m("fecha"), monto |-> m("monto"),
         distribucion |-> Partes(d("farfan"), d("mica"), d("ffma")),
         estado |-> m("estado"), creadoPor |-> m("creadoPor"),
         modificadoPor |-> m("modificadoPor")]

\* the second half of _upsertRegistro, run on the store as it is now with
\* the documents hallados that findOne returned earlier
upsertTrasBuscar(store, seq, n, usuarioId, hallados) ==
    IF hallados = {} \/ ~Existe(store, (CHOOSE p \in hallados : TRUE).id)
    THEN upsertHallados(store, seq, n, usuarioId, hallados)
    ELSE LET prev == CHOOSE p \in hallados : TRUE
             doc == registroSet(prev, n, usuarioId)
         IN  IF ~Validar(doc, prev, FALSE)
             THEN guardado([ok |-> FALSE, error |-> "validacion",
                            store |-> store, doc |-> doc], store, seq, FALSE)
             ELSE guardado(Escribir(store,
                              soloModificados(Registro(store, prev.id),
                                              preSave(doc), prev)),
                           store, seq, FALSE)

\* crearOActualizarPago up to and including findOne(query), as call c
buscarUpsert(c, datos, usuarioId) ==
    LET n == normalizarDatos(datos)
    IN  /\ enVuelo[c].pc \in {"inactiva", "hecha"}
        /\ pagoOps < MaxOps
        /\ pagoOps' = pagoOps + 1
        /\ IF ~n.ok
           THEN /\ enVuelo' = [enVuelo EXCEPT ![c] =
                      [pc |-> "hecha", ok |-> FALSE, error |-> n.error,
                       clave |-> << >>, creado |-> FALSE]]
                /\ respuesta' = Resp("upsert", FALSE, n.error, FALSE, 0,
                                     Indefinido, 0, SinDistribucion)
           ELSE /\ enVuelo' = [enVuelo EXCEPT ![c] =
                      [pc |-> "guardar", n |-> n, usuario |-> usuarioId,
                       datos |-> datos,
                       hallados |-> {p \in pagos : Clave(p) =
                                       <<n.anio, n.mes, n.semana, n.fecha>>}]]
                /\ UNCHANGED respuesta
        /\ UNCHANGED <<pagos, pagoSeq, planilla, calc, periodo, varsSesion>>

\* the rest of call c: set or new, save(), and the answer
guardarUpsert(c) ==
    /\ enVuelo[c].pc = "guardar"
    /\ LET e == enVuelo[c]
           r == upsertTrasBuscar(pagos, pagoSeq, e.n, e.usuario, e.hallados)
       IN  /\ r.seq <= MaxPagos
           /\ pagos' = r.store
           /\ pagoSeq' = r.seq
           /\ enVuelo' = [enVuelo EXCEPT ![c] =
                 [pc |-> "hecha", ok |-> r.ok, error |-> r.error,
                  clave |-> <<e.n.anio, e.n.mes, e.n.semana, e.n.fecha>>,
                  creado |-> r.esNuevo]]
           /\ respuesta' =
                 IF r.ok
                 THEN Resp("upsert", TRUE, "", r.esNuevo, r.id, e.usuario,
                           NumeroDe(e.datos.monto, 0), e.datos.distribucion)
                 ELSE Resp("upsert", FALSE, r.error, FALSE, 0, Indefinido, 0,
                           SinDistribucion)
    /\ UNCHANGED <<pagoOps, planilla, calc, periodo, varsSesion>>

-----------------------------------------------------------------------------
(* PagoPersonal.obtenerPlanillaMes *)

FechaMenor(a, b) == a.dia < b.dia \/ (a.dia = b.dia /\ a.ms < b.ms)

\* sort({semana: 1, fecha: 1}); documents equal on both keep the id order
Antes(p, q) ==
    \/ p.semana < q.semana
    \/ p.semana = q.semana /\ FechaMenor(p.fecha, q.fecha)
    \/ p.semana = q.semana /\ p.fecha = q.fecha /\ p.id < q.id

RECURSIVE Ordenados(_)
Ordenados(S) ==
    IF S = {} THEN << >>
    ELSE LET primero == CHOOSE p \in S : \A q \in S \ {p} : Antes(p, q)
         IN  <<primero>> \o Ordenados(S \ {primero})

Poner(f, k, v) == [x \in (DOMAIN f) \cup {k} |-> IF x = k THEN v ELSE f[x]]

SemanaVacia(n) ==
    [semana |-> n, dias |-> << >>, subtotal |-> 0,
     distribucion |-> Partes(0, 0, 0)]

\* faulty variant: a day already present in the week replaces its amount in the subtotal
agregarRegistroReemplazo(porSemanas, registro) ==
    LET s == registro.semana
        previa == IF s \in DOMAIN porSemanas THEN porSemanas[s] ELSE SemanaVacia(s)
        viejo == IF registro.diaSemana \in DOMAIN previa.dias
                 THEN previa.dias[registro.diaSemana].monto ELSE 0
        dia == [fecha |-> registro.fecha, monto |-> registro.monto,
                distribucion |-> registro.distribucion, estado |-> registro.estado,
                colaborador |-> registro.creadoPor]
    IN  Poner(porSemanas, s,
              [semana |-> s,
               dias |-> Poner(previa.dias, registro.diaSemana, dia),
               subtotal |-> previa.subtotal - viejo + registro.monto,
               distribucion |->
                   Partes(previa.distribucion.farfan + registro.distribucion.farfan,
                          previa.distribucion.mica + registro.distribucion.mica,
                          previa.distribucion.ffma + registro.distribucion.ffma)])

\* the body of registros.forEach: the week's record is created when missing,
\* the day is written under its name and the subtotals grow
agregarRegistro(porSemanas, registro) ==
    LET s == registro.semana
        previa == IF s \in DOMAIN porSemanas THEN porSemanas[s] ELSE SemanaVacia(s)
        dia == [fecha |-> registro.fecha, monto |-> registro.monto,
                distribucion |-> registro.distribucion, estado |-> registro.estado,
                colaborador |-> registro.creadoPor]
    IN  Poner(porSemanas, s,
              [semana |-> s,
               dias |-> Poner(previa.dias, registro.diaSemana, dia),
               subtotal |-> previa.subtotal + registro.monto,
               distribucion |->
                   Partes(previa.distribucion.farfan + registro.distribucion.farfan,
                          previa.distribucion.mica + registro.distribucion.mica,
                          previa.distribucion.ffma + registro.distribucion.ffma)])

RECURSIVE organizarPorSemanas(_, _, _)
organizarPorSemanas(registros, i, porSemanas) ==
    IF i > Len(registros) THEN porSemanas
    ELSE organizarPorSemanas(registros, i + 1,
                             agregarRegistro(porSemanas, registros[i]))

RECURSIVE totalesDelMes(_, _, _)
\* Object.values(planillaPorSemanas).forEach over the weeks still to visit
totalesDelMes(porSemanas, resto, acc) ==
    IF resto = {} THEN acc
    ELSE LET n == CHOOSE x \in resto : \A y \in resto : x <= y
             sem == porSemanas[n]
         IN  totalesDelMes(porSemanas, resto \ {n},
                [total |-> acc.total + sem.subtotal,
                 distribucion |->
                     Partes(acc.distribucion.farfan + sem.distribucion.farfan,
                            acc.distribucion.mica + sem.distribucion.mica,
                            acc.distribucion.ffma + sem.distribucion.ffma)])

\* the month-sheet the static method returns for the stored documents
planillaMes(store, anio, mes) ==
    LET registros == Ordenados({p \in store : p.anio = anio /\ p.mes = mes})
        porSemanas == organizarPorSemanas(registros, 1, << >>)
        t == totalesDelMes(porSemanas, DOMAIN porSemanas,
                           [total |-> 0, distribucion |-> Partes(0, 0, 0)])
    IN  [dada |-> TRUE, anio |-> anio, mes |-> mes, semanas |-> porSemanas,
         totales |->
            [total |-> MathRound(t.total * 100),
             distribucion |-> Partes(MathRound(t.distribucion.farfan * 100),
                                     MathRound(t.distribucion.mica * 100),
                                     MathRound(t.distribucion.ffma * 100))]]

\* obtenerPlanillaMes(anio, mes)
obtenerPlanillaMes(anio, mes) ==
    /\ pagoOps < MaxOps
    /\ pagoOps' = pagoOps + 1
    /\ planilla' = planillaMes(pagos, anio, mes)
    /\ respuesta' = Resp("planillaMes", TRUE, "", FALSE, 0, Indefinido, 0,
                         SinDistribucion)
    /\ UNCHANGED <<pagos, pagoSeq, calc, periodo, varsSesion, enVuelo>>

-----------------------------------------------------------------------------
(* Sesion: schema, defaults and save hooks *)

Pacientes == {"p1", "p2"}

ESTADOS_SESION ==
    {"programada", "realizada", "cancelada", "ausente", "reprogramada"}

EstadisticasCero ==
    [totalSesiones |-> 0, totalAbonado |-> 0, saldoPendiente |-> 0,
     ultimaSesion |-> FechaInvalida]

METODOS_PAGO ==
    {"efectivo", "transferencia", "tarjeta", "obra_social", "pendiente"}

\* what a session operation leaves for its caller: the operation, whether it
\* returned (ok) or threw (error), the id of the session written, the id of
\* the session created by a reschedule, what it was called with, whether the
\* statistics recomputation failed while it ran, and the data it returned
Res(op, ok, error, id, nueva, entrada, falla, salida) ==
    [op |-> op, ok |-> ok, error |-> error, id |-> id, nueva |-> nueva,
     entrada |-> entrada, falla |-> falla, salida |-> salida]

SinSalida == [dada |-> FALSE]

\* what the session operations answer before any has run
ResSesionInicial == Res("", TRUE, "", 0, 0, SinSalida, FALSE, SinSalida)

SesionVacio ==
    /\ sesiones = {}
    /\ sesionSeq = 0
    /\ sesionOps = 0
    /\ estadisticas = [p \in Pacientes |-> EstadisticasCero]
    /\ resSesion = ResSesionInicial

\* a pago object as a caller writes it; fechaPago and metodoPago optional.
\* pagado is the truth value of the field and nulo tells a null from a false
Pago(monto, pagado, fechaPago) ==
    [dado |-> TRUE, monto |-> monto, metodoPago |-> Indefinido,
     pagado |-> pagado, nulo |-> FALSE, fechaPago |-> fechaPago]
PagoNulo(monto) == [Pago(monto, FALSE, Nada) EXCEPT !.nulo = TRUE]
SinPago ==
    [dado |-> FALSE, monto |-> 0, metodoPago |-> Indefinido,
     pagado |-> FALSE, nulo |-> FALSE, fechaPago |-> Nada]

\* the pago stored when a caller's pago object is assigned to the document
PagoDado(pago) ==
    [monto |-> pago.monto, metodoPago |-> pago.metodoPago,
     pagado |-> pago.pagado, nulo |-> pago.nulo,
     fechaPago |-> NumeroDe(pago.fechaPago, 0)]

\* the schema's validators on a Sesion document; a numeroOrden or
\* numeroSesion of 0 stands for an absent one
ValidarSesion(doc) ==
    /\ doc.paciente # Indefinido
    /\ ~EsFechaInvalida(doc.fecha)
    /\ doc.numeroOrden # 0 => doc.numeroOrden >= 1
    /\ doc.numeroSesion # 0 => doc.numeroSesion >= 1
    /\ doc.pago.monto >= 0
    /\ doc.pago.metodoPago \in METODOS_PAGO \cup {Indefinido}
    /\ doc.estado \in ESTADOS_SESION

\* sesionSchema.pre('save'): a paid session without fechaPago gets the
\* current time (the duration fields are left out)
preSaveSesion(doc, ahora) ==
    IF doc.pago.pagado /\ doc.pago.fechaPago = 0
    THEN [doc EXCEPT !.pago.fechaPago = ahora]
    ELSE doc

MaxFecha(a, b) ==
    IF EsFechaInvalida(a) THEN b
    ELSE IF EsFechaInvalida(b) THEN a
    ELSE IF FechaMenor(a, b) THEN b ELSE a

RECURSIVE agregarEstadisticas(_, _)
\* the $group stage over the matched sessions
agregarEstadisticas(S, acc) ==
    IF S = {} THEN acc
    ELSE LET x == CHOOSE y \in S : TRUE
         IN  agregarEstadisticas(S \ {x},
                [totalSesiones |-> acc.totalSesiones + 1,
                 totalAbonado |-> acc.totalAbonado
                     + (IF x.pago.pagado THEN x.pago.monto ELSE 0),
                 saldoPendiente |-> acc.saldoPendiente
                     + (IF ~x.pago.pagado /\ ~x.pago.nulo
                        THEN x.pago.monto ELSE 0),
                 ultimaSesion |-> MaxFecha(acc.ultimaSesion, x.fecha)])

\* sesionSchema.post('save'): the saved document's patient gets the
\* aggregation over the sessions now stored for it; when the aggregation or
\* the patient update throws (falla), the catch leaves the statistics alone
postSave(store, stats, doc, falla) ==
    IF falla THEN stats
    ELSE IF doc.paciente \in DOMAIN stats
    THEN [stats EXCEPT ![doc.paciente] =
            agregarEstadisticas({x \in store : x.paciente = doc.paciente},
                                EstadisticasCero)]
    ELSE stats

\* faulty variant: a failure of the recomputation is thrown to the caller of
\* save, after the document was written
GuardarSesionPropaga(store, stats, doc, ahora, falla) ==
    IF ~ValidarSesion(doc)
    THEN [ok |-> FALSE, error |-> "validacion", store |-> store,
          stats |-> stats, doc |-> doc]
    ELSE LET d == preSaveSesion(doc, ahora)
             st == {x \in store : x.id # d.id} \cup {d}
         IN  IF falla
             THEN [ok |-> FALSE, error |-> "estadisticas", store |-> st,
                   stats |-> stats, doc |-> d]
             ELSE [ok |-> TRUE, error |-> "", store |-> st,
                   stats |-> postSave(st, stats, d, falla), doc |-> d]

\* sesion.save() / Sesion.create(): validation, pre-save, write, post-save
GuardarSesion(store, stats, doc, ahora, falla) ==
    IF ~ValidarSesion(doc)
    THEN [ok |-> FALSE, error |-> "validacion", store |-> store,
          stats |-> stats, doc |-> doc]
    ELSE LET d == preSaveSesion(doc, ahora)
             st == {x \in store : x.id # d.id} \cup {d}
         IN  [ok |-> TRUE, error |-> "", store |-> st,
              stats |-> postSave(st, stats, d, falla), doc |-> d]

-----------------------------------------------------------------------------
(* SesionService: operations *)

\* Date.UTC(year, month, day, ...) with the runtime's 0-based month
DateUTC(year, month, day, ms) ==
    [dia |-> DiasDesdeCivil[<<year, month + 1, day>>], ms |-> ms]

\* the current time when a session comes without fecha: 2025-07-02 12:00 UTC
Hoy == [dia |-> DiasDesdeCivil[<<2025, 7, 2>>], ms |-> 12 * 60 * 60 * 1000]

\* faulty variant: the end of the day stops at 23:59:59.000
limitesDelDiaSinMs(fecha) ==
    LET year == getUTCFullYear(fecha)
        month == getUTCMonth(fecha)
        day == getUTCDate(fecha)
    IN  [inicioDia |-> DateUTC(year, month, day, 0),
         finDia |-> DateUTC(year, month, day, MsDia - 1000)]

\* inicioDia and finDia of the UTC day of fecha
limitesDelDia(fecha) ==
    LET year == getUTCFullYear(fecha)
        month == getUTCMonth(fecha)
        day == getUTCDate(fecha)
    IN  [inicioDia |-> DateUTC(year, month, day, 0),
         finDia |-> DateUTC(year, month, day, MsDia - 1)]

FechaMenorIgual(a, b) == a = b \/ FechaMenor(a, b)

\* Sesion.findOne({fecha: {$gte, $lte}}).sort('-numeroOrden'), plus 1
siguienteNumeroOrden(store, fecha) ==
    LET l == limitesDelDia(fecha)
        delDia == {x \in store : /\ FechaMenorIgual(l.inicioDia, x.fecha)
                                 /\ FechaMenorIgual(x.fecha, l.finDia)}
    IN  IF delDia = {} THEN 1
        ELSE (CHOOSE n \in {x.numeroOrden : x \in delDia} :
                 \A x \in delDia : x.numeroOrden <= n) + 1

\* a text is the sequence of its characters; an absent motivoCancelacion
SinMotivo == <<"undefined">>

\* trim: true on a String path: the text without the blanks around it
Recortar(texto) ==
    LET letras == {i \in 1..Len(texto) : texto[i] # " "}
    IN  IF letras = {} THEN << >>
        ELSE SubSeq(texto,
                    CHOOSE i \in letras : \A j \in letras : i <= j,
                    CHOOSE i \in letras : \A j \in letras : j <= i)

\* a new Sesion document with the schema's defaults
NuevaSesion(id, paciente, fecha, numeroOrden, numeroSesion, estado, pago) ==
    [id |-> id, paciente |-> paciente, fecha |-> fecha,
     numeroOrden |-> numeroOrden, numeroSesion |-> numeroSesion,
     estado |-> IF estado = Indefinido THEN "programada" ELSE estado,
     pago |-> IF pago.dado
              THEN [PagoDado(pago) EXCEPT
                      !.metodoPago = IF @ = Indefinido THEN "pendiente" ELSE @]
              ELSE [monto |-> 0, metodoPago |-> "pendiente", pagado |-> FALSE,
                    nulo |-> FALSE, fechaPago |-> 0],
     motivoCancelacion |-> SinMotivo, sesionReprogramada |-> 0]

\* faulty variant: cancelled sessions are left out of the count
siguienteNumeroSesionSinCanceladas(store, paciente) ==
    Cardinality({x \in store : /\ x.paciente = paciente
                               /\ x.estado # "cancelada"}) + 1

\* Sesion.countDocuments({paciente}) + 1
siguienteNumeroSesion(store, paciente) ==
    Cardinality({x \in store : x.paciente = paciente}) + 1

\* registrarSesion(datosSesion, profesionalId)
registrarSesion(datos, falla) ==
    LET fecha == IF datos.fecha.t = "ausente" THEN Hoy ELSE NuevaFecha(datos.fecha)
        numeroOrden == IF datos.numeroOrden = 0
                       THEN siguienteNumeroOrden(sesiones, fecha)
                       ELSE datos.numeroOrden
        numeroSesion ==
            IF datos.numeroSesion = 0
            THEN siguienteNumeroSesion(sesiones, datos.paciente)
            ELSE datos.numeroSesion
        doc == NuevaSesion(sesionSeq + 1, datos.paciente, fecha, numeroOrden,
                           numeroSesion, datos.estado, datos.pago)
        g == GuardarSesion(sesiones, estadisticas, doc, sesionOps + 1, falla)
        error == IF datos.paciente \notin Pacientes THEN "noEncontrado"
                 ELSE IF datos.numeroOrden = 0 /\ EsFechaInvalida(fecha)
                      THEN "fecha"
                 ELSE g.error
    IN  /\ sesionOps < MaxSesOps
        /\ sesionSeq < MaxSesiones
        /\ sesionOps' = sesionOps + 1
        /\ IF error # ""
           THEN /\ resSesion' = Res("registrar", FALSE, error, 0, 0, datos,
                                    falla, SinSalida)
                /\ UNCHANGED <<sesiones, sesionSeq, estadisticas>>
           ELSE /\ sesiones' = g.store
                /\ estadisticas' = g.stats
                /\ sesionSeq' = sesionSeq + 1
                /\ resSesion' = Res("registrar", TRUE, "", doc.id, 0, datos,
                                    falla, SinSalida)
        /\ UNCHANGED <<varsPago, calc, periodo, enVuelo>>

\* actualizarSesion(sesionId, datosActualizar, userId): Object.assign of the
\* fields given, then save
actualizarSesion(id, datos, falla) ==
    /\ sesionOps < MaxSesOps
    /\ sesionOps' = sesionOps + 1
    /\ UNCHANGED <<sesionSeq, varsPago, calc, periodo, enVuelo>>
    /\ IF ~Existe(sesiones, id)
       THEN /\ resSesion' = Res("actualizar", FALSE, "noEncontrado", 0, 0,
                                datos, falla, SinSalida)
            /\ UNCHANGED <<sesiones, estadisticas>>
       ELSE LET sesion == Registro(sesiones, id)
                doc == [sesion EXCEPT
                          !.fecha = IF datos.fecha.t = "ausente" THEN @
                                    ELSE NuevaFecha(datos.fecha),
                          !.numeroOrden = IF datos.numeroOrden = 0 THEN @
                                          ELSE datos.numeroOrden,
                          !.numeroSesion = IF datos.numeroSesion = 0 THEN @
                                           ELSE datos.numeroSesion,
                          !.paciente = IF datos.paciente = Indefinido THEN @
                                       ELSE datos.paciente,
                          !.estado = IF datos.estado = Indefinido THEN @
                                     ELSE datos.estado,
                          !.pago = IF datos.pago.dado
                                   THEN PagoDado(datos.pago) ELSE @]
                g == GuardarSesion(sesiones, estadisticas, doc, sesionOps + 1,
                                   falla)
            IN  /\ sesiones' = g.store
                /\ estadisticas' = g.stats
                /\ resSesion' = Res("actualizar", g.ok, g.error,
                                    IF g.ok THEN id ELSE 0, 0, datos, falla,
                                    SinSalida)

\* {...sesion.pago, ...datosPago, pagado: true, fechaPago: new Date()}
pagoRegistrado(pago, datosPago, ahora) ==
    [monto |-> NumeroDe(datosPago.monto, pago.monto),
     metodoPago |-> IF datosPago.metodoPago = Indefinido
                    THEN pago.metodoPago ELSE datosPago.metodoPago,
     pagado |-> TRUE,
     nulo |-> FALSE,
     fechaPago |-> ahora]

\* registrarPago(sesionId, datosPago)
registrarPago(id, datosPago, falla) ==
    /\ sesionOps < MaxSesOps
    /\ sesionOps' = sesionOps + 1
    /\ UNCHANGED <<sesionSeq, varsPago, calc, periodo, enVuelo>>
    /\ IF ~Existe(sesiones, id)
       THEN /\ resSesion' = Res("pago", FALSE, "noEncontrado", 0, 0,
                                datosPago, falla, SinSalida)
            /\ UNCHANGED <<sesiones, estadisticas>>
       ELSE LET sesion == Registro(sesiones, id)
                doc == [sesion EXCEPT
                          !.pago = pagoRegistrado(@, datosPago, sesionOps + 1)]
                g == GuardarSesion(sesiones, estadisticas, doc, sesionOps + 1,
                                   falla)
            IN  /\ sesiones' = g.store
                /\ estadisticas' = g.stats
                /\ resSesion' = Res("pago", g.ok, g.error,
                                    IF g.ok THEN id ELSE 0, 0, datosPago,
                                    falla, SinSalida)

\* faulty variant: the spawned session is numbered like a new registration
sesionReprogramadaRenumerada(sesion, fecha, store, seq) ==
    [NuevaSesion(seq + 1, sesion.paciente, fecha,
                 siguienteNumeroOrden(store, fecha),
                 Cardinality({x \in store : x.paciente = sesion.paciente}) + 1,
                 "reprogramada",
                 [Pago(sesion.pago.monto, FALSE, Nada) EXCEPT
                     !.metodoPago = sesion.pago.metodoPago])
     EXCEPT !.motivoCancelacion = SinMotivo]

\* the session that cancelarSesion creates for nuevaFecha
sesionReprogramada(sesion, fecha, store, seq) ==
    [NuevaSesion(seq + 1, sesion.paciente, fecha,
                 siguienteNumeroOrden(store, fecha), sesion.numeroSesion,
                 "reprogramada",
                 [Pago(sesion.pago.monto, FALSE, Nada) EXCEPT
                     !.metodoPago = sesion.pago.metodoPago])
     EXCEPT !.motivoCancelacion = SinMotivo]

\* what a cancellation leaves: the outcome of the last save, the sessions
\* ever created and the id of the session created for nuevaFecha (0: none)
Cancelacion(g, seq, nueva) ==
    [ok |-> g.ok, error |-> g.error, store |-> g.store, stats |-> g.stats,
     seq |-> seq, nueva |-> nueva]

\* sesion.sesionReprogramada = nuevaSesion._id; await sesion.save(), reached
\* only when Sesion.create(nuevaSesion), whose outcome is g1, did not throw
enlazarYGuardar(sesion, nuevaSesion, g1, seq, ahora, falla) ==
    IF ~g1.ok
    THEN Cancelacion(g1, seq, 0)
    ELSE Cancelacion(GuardarSesion(g1.store, g1.stats,
                        [sesion EXCEPT !.sesionReprogramada = nuevaSesion.id],
                        ahora, falla),
                     seq + 1, nuevaSesion.id)

\* if (nuevaFecha) { ... Sesion.create ... }, then the save of the original
reprogramar(sesion, nuevaSesion, store, stats, seq, ahora, falla) ==
    IF EsFechaInvalida(nuevaSesion.fecha)
    THEN Cancelacion([ok |-> FALSE, error |-> "fecha", store |-> store,
                      stats |-> stats], seq, 0)
    ELSE enlazarYGuardar(sesion, nuevaSesion,
                         GuardarSesion(store, stats, nuevaSesion, ahora, falla),
                         seq, ahora, falla)

\* the body of cancelarSesion once the session is found and marked: without
\* nuevaFecha the session is saved; with one, the new session is created
\* first and the cancelled one is saved afterwards with the link to it
cancelarYReprogramar(sesion, nuevaFecha, store, stats, seq, ahora, falla) ==
    IF nuevaFecha.t = "ausente"
    THEN Cancelacion(GuardarSesion(store, stats, sesion, ahora, falla), seq, 0)
    ELSE reprogramar(sesion,
                     sesionReprogramada(sesion, NuevaFecha(nuevaFecha),
                                        store, seq),
                     store, stats, seq, ahora, falla)

\* cancelarSesion(sesionId, motivo, nuevaFecha, profesionalId)
cancelarSesion(id, motivo, nuevaFecha, falla) ==
    /\ sesionOps < MaxSesOps
    /\ nuevaFecha.t = "ausente" \/ sesionSeq < MaxSesiones
    /\ sesionOps' = sesionOps + 1
    /\ UNCHANGED <<varsPago, calc, periodo, enVuelo>>
    /\ IF ~Existe(sesiones, id)
       THEN /\ resSesion' = Res("cancelar", FALSE, "noEncontrado", 0, 0,
                                [motivo |-> motivo, nuevaFecha |-> nuevaFecha],
                                falla, SinSalida)
            /\ UNCHANGED <<sesiones, sesionSeq, estadisticas>>
       ELSE LET r == cancelarYReprogramar(
                        [Registro(sesiones, id) EXCEPT
                            !.estado = "cancelada",
                            !.motivoCancelacion = Recortar(motivo)],
                        nuevaFecha, sesiones, estadisticas, sesionSeq,
                        sesionOps + 1, falla)
            IN  /\ sesiones' = r.store
                /\ estadisticas' = r.stats
                /\ sesionSeq' = r.seq
                /\ resSesion' = Res("cancelar", r.ok, r.error,
                                    IF r.ok THEN id ELSE 0, r.nueva,
                                    [motivo |-> motivo,
                                     nuevaFecha |-> nuevaFecha],
                                    falla, SinSalida)

\* actualizarDesdePlanilla(sesionId, datosActualizar, userId): the pago given
\* is merged over the stored one
actualizarDesdePlanilla(id, datos, falla) ==
    /\ sesionOps < MaxSesOps
    /\ sesionOps' = sesionOps + 1
    /\ UNCHANGED <<sesionSeq, varsPago, calc, periodo, enVuelo>>
    /\ IF ~Existe(sesiones, id)
       THEN /\ resSesion' = Res("planilla", FALSE, "noEncontrado", 0, 0,
                                datos, falla, SinSalida)
            /\ UNCHANGED <<sesiones, estadisticas>>
       ELSE LET sesion == Registro(sesiones, id)
                fusion == [monto |-> datos.pago.monto,
                           metodoPago |->
                              IF datos.pago.metodoPago = Indefinido
                              THEN sesion.pago.metodoPago
                              ELSE datos.pago.metodoPago,
                           pagado |-> datos.pago.pagado,
                           nulo |-> datos.pago.nulo,
                           fechaPago |-> NumeroDe(datos.pago.fechaPago,
                                                  sesion.pago.fechaPago)]
                conFecha == IF datos.pago.pagado /\ fusion.fechaPago = 0
                            THEN [fusion EXCEPT !.fechaPago = sesionOps + 1]
                            ELSE fusion
                sinFecha == IF ~datos.pago.pagado /\ ~datos.pago.nulo
                            THEN [conFecha EXCEPT !.fechaPago = 0]
                            ELSE conFecha
                doc == IF datos.pago.dado
                       THEN [sesion EXCEPT !.pago = sinFecha] ELSE sesion
                g == GuardarSesion(sesiones, estadisticas, doc, sesionOps + 1,
                                   falla)
            IN  /\ sesiones' = g.store
                /\ estadisticas' = g.stats
                /\ resSesion' = Res("planilla", g.ok, g.error,
                                    IF g.ok THEN id ELSE 0, 0, datos, falla,
                                    SinSalida)

HistorialCero ==
    [totalSesiones |-> 0, sesionesRealizadas |-> 0, sesionesAusentes |-> 0,
     totalPagado |-> 0, totalPendiente |-> 0, ultimaSesion |-> FechaInvalida]

RECURSIVE agregarHistorial(_, _)
\* the $group stage of obtenerHistorialPaciente: $cond on '$pago.pagado'
\* itself and on its $not, so a null pagado counts as pending
agregarHistorial(S, acc) ==
    IF S = {} THEN acc
    ELSE LET x == CHOOSE y \in S : TRUE
         IN  agregarHistorial(S \ {x},
                [totalSesiones |-> acc.totalSesiones + 1,
                 sesionesRealizadas |-> acc.sesionesRealizadas
                     + (IF x.estado = "realizada" THEN 1 ELSE 0),
                 sesionesAusentes |-> acc.sesionesAusentes
                     + (IF x.estado = "ausente" THEN 1 ELSE 0),
                 totalPagado |-> acc.totalPagado
                     + (IF x.pago.pagado THEN x.pago.monto ELSE 0),
                 totalPendiente |-> acc.totalPendiente
                     + (IF ~x.pago.pagado THEN x.pago.monto ELSE 0),
                 ultimaSesion |-> MaxFecha(acc.ultimaSesion, x.fecha)])

\* SesionService.obtenerHistorialPaciente: recomputes the patient's statistics
\* from all of the patient's sessions, stores them and returns them
obtenerHistorialPaciente(pacienteId) ==
    /\ sesionOps < MaxSesOps
    /\ sesionOps' = sesionOps + 1
    /\ UNCHANGED <<sesiones, sesionSeq, varsPago, calc, periodo, enVuelo>>
    /\ IF pacienteId \notin Pacientes
       THEN /\ resSesion' = Res("historial", FALSE, "noEncontrado", 0, 0,
                                [paciente |-> pacienteId], FALSE, SinSalida)
            /\ UNCHANGED estadisticas
       ELSE LET stats == agregarHistorial(
                            {x \in sesiones : x.paciente = pacienteId},
                            HistorialCero)
            IN  /\ estadisticas' =
                      [estadisticas EXCEPT ![pacienteId] =
                          [totalSesiones |-> stats.totalSesiones,
                           totalAbonado |-> stats.totalPagado,
                           saldoPendiente |-> stats.totalPendiente,
                           ultimaSesion |-> stats.ultimaSesion]]
                /\ resSesion' = Res("historial", TRUE, "", 0, 0,
                                    [paciente |-> pacienteId], FALSE,
                                    [dada |-> TRUE,
                                     totalSesiones |-> stats.totalSesiones,
                                     sesionesRealizadas |->
                                        stats.sesionesRealizadas,
                                     sesionesAusentes |->
                                        stats.sesionesAusentes,
                                     totalPagado |-> stats.totalPagado,
                                     totalPendiente |-> stats.totalPendiente])

RECURSIVE SumaMontos(_)
\* the sum of pago.monto over a set of sessions
SumaMontos(S) ==
    IF S = {} THEN 0
    ELSE LET x == CHOOSE y \in S : TRUE
         IN  x.pago.monto + SumaMontos(S \ {x})

LimitePorDefecto == 50

\* the pages find(query).sort('-fecha').limit(limit) may return: limit of the
\* matched sessions (all of them when there are fewer), none older than a
\* session left out; sessions of one fecha come in no defined order
Paginas(coinciden, limit) ==
    {R \in SUBSET coinciden :
        /\ Cardinality(R) = IF Cardinality(coinciden) < limit
                            THEN Cardinality(coinciden) ELSE limit
        /\ \A x \in R, y \in coinciden \ R : FechaMenorIgual(y.fecha, x.fecha)}

\* the totals and groupings obtenerPagosPendientes reduces from the page R
PaginaResumida(R) ==
    LET metodo(x) == IF x.pago.metodoPago = Indefinido
                     THEN "pendiente" ELSE x.pago.metodoPago
    IN  [dada |-> TRUE,
         sesiones |-> {x.id : x \in R},
         totalPendiente |-> SumaMontos(R),
         cantidad |-> Cardinality(R),
         porEstado |-> [e \in {x.estado : x \in R} |->
                           Cardinality({x \in R : x.estado = e})],
         porMetodoPago |-> [m \in {metodo(x) : x \in R} |->
                           Cardinality({x \in R : metodo(x) = m})]]

\* SesionService.obtenerPagosPendientes({limit, pacienteId})
obtenerPagosPendientes(limit, pacienteId) ==
    /\ sesionOps < MaxSesOps
    /\ sesionOps' = sesionOps + 1
    /\ UNCHANGED <<sesiones, sesionSeq, estadisticas, varsPago, calc, periodo,
                   enVuelo>>
    /\ LET coinciden ==
              {x \in sesiones :
                  /\ ~x.pago.pagado /\ ~x.pago.nulo
                  /\ pacienteId # Indefinido => x.paciente = pacienteId}
       IN  \E R \in Paginas(coinciden, limit) :
              resSesion' = Res("pendientes", TRUE, "", 0, 0,
                               [limit |-> limit, pacienteId |-> pacienteId],
                               FALSE, PaginaResumida(R))

\* the orders find().sort('numeroOrden horaEntrada') may return the sessions
\* S in, as sequences of ids; horaEntrada is not modelled (no session has
\* one), so sessions of one numeroOrden come in no defined order
OrdenadasPorNumero(S) ==
    {o \in [1..Cardinality(S) -> {x.id : x \in S}] :
        /\ \A i, k \in DOMAIN o : i # k => o[i] # o[k]
        /\ \A i, k \in DOMAIN o :
              i < k => Registro(S, o[i]).numeroOrden
                          <= Registro(S, o[k]).numeroOrden}

\* the totals of the day obtenerPlanillaDiaria reduces from the sessions S
totalesDelDia(S) ==
    LET realizadas == {x \in S : x.estado = "realizada"}
    IN  [totalSesiones |-> Cardinality(realizadas),
         totalRecaudado |-> SumaMontos({x \in realizadas : x.pago.pagado}),
         totalPendiente |-> SumaMontos({x \in realizadas : ~x.pago.pagado}),
         canceladas |-> Cardinality({x \in S : x.estado = "cancelada"}),
         ausentes |-> Cardinality({x \in S : x.estado = "ausente"})]

\* the first lines of obtenerPlanillaDiaria: a 'YYYY-MM-DD' string gives its
\* three numbers (month 1..12); anything else goes through Date and gives
\* getUTCMonth(), 0..11; both are then passed to Date.UTC as month - 1
limitesDePlanilla(fecha) ==
    LET esCadena == fecha.forma = "cadena" /\ fecha.iso.t = "iso"
                    /\ fecha.iso.ms = 0
        fechaDate == NuevaFecha(fecha.iso)
        year == IF esCadena THEN fecha.iso.y ELSE getUTCFullYear(fechaDate)
        month == IF esCadena THEN fecha.iso.m ELSE getUTCMonth(fechaDate)
        day == IF esCadena THEN fecha.iso.d ELSE getUTCDate(fechaDate)
    IN  [invalida |-> ~esCadena /\ EsFechaInvalida(fechaDate),
         inicioDia |-> DateUTC(year, month - 1, day, 0),
         finDia |-> DateUTC(year, month - 1, day, MsDia - 1)]

\* SesionService.obtenerPlanillaDiaria(fecha)
obtenerPlanillaDiaria(fecha) ==
    /\ sesionOps < MaxSesOps
    /\ sesionOps' = sesionOps + 1
    /\ UNCHANGED <<sesiones, sesionSeq, estadisticas, varsPago, calc, periodo,
                   enVuelo>>
    /\ LET l == limitesDePlanilla(fecha)
           delDia == {x \in sesiones :
                         /\ FechaMenorIgual(l.inicioDia, x.fecha)
                         /\ FechaMenorIgual(x.fecha, l.finDia)}
       IN  IF l.invalida
           THEN resSesion' = Res("diaria", FALSE, "fecha", 0, 0, fecha, FALSE,
                                 SinSalida)
           ELSE \E o \in OrdenadasPorNumero(delDia) :
                   resSesion' = Res("diaria", TRUE, "", 0, 0, fecha, FALSE,
                                    [dada |-> TRUE, fecha |-> l.inicioDia,
                                     sesiones |-> o,
                                     totales |-> totalesDelDia(delDia)])

\* faulty variant: the index on {fecha, numeroOrden} is unique
IndiceOrdenUnico(store, doc) ==
    \A x \in store :
        x.id # doc.id => <<x.fecha, x.numeroOrden>> # <<doc.fecha, doc.numeroOrden>>

\* the index on {fecha, numeroOrden} is not unique: it admits every document
IndiceOrden(store, doc) == TRUE

\* what call c leaves when it ends
Hecha(op, ok, error, id) ==
    [pc |-> "hecha", op |-> op, ok |-> ok, error |-> error, id |-> id]

\* registrarSesion up to the reads: the patient, the day's last numeroOrden
\* and the patient's session count, as call c
leerRegistro(c, datos) ==
    LET fecha == IF datos.fecha.t = "ausente" THEN Hoy
                 ELSE NuevaFecha(datos.fecha)
        error == IF datos.paciente \notin Pacientes THEN "noEncontrado"
                 ELSE IF datos.numeroOrden = 0 /\ EsFechaInvalida(fecha)
                      THEN "fecha"
                 ELSE ""
    IN  /\ enVuelo[c].pc \in {"inactiva", "hecha"}
        /\ sesionOps < MaxSesOps
        /\ sesionOps' = sesionOps + 1
        /\ IF error # ""
           THEN /\ enVuelo' = [enVuelo EXCEPT ![c] =
                                  Hecha("registrar", FALSE, error, 0)]
                /\ resSesion' = Res("registrar", FALSE, error, 0, 0, datos,
                                    FALSE, SinSalida)
           ELSE /\ enVuelo' = [enVuelo EXCEPT ![c] =
                      [pc |-> "insertar", op |-> "registrar", datos |-> datos,
                       fecha |-> fecha, ahora |-> sesionOps + 1,
                       numeroOrden |->
                          IF datos.numeroOrden = 0
                          THEN siguienteNumeroOrden(sesiones, fecha)
                          ELSE datos.numeroOrden,
                       numeroSesion |->
                          IF datos.numeroSesion = 0
                          THEN siguienteNumeroSesion(sesiones, datos.paciente)
                          ELSE datos.numeroSesion,
                       vistas |-> {x.id : x \in sesiones}]]
                /\ UNCHANGED resSesion
        /\ UNCHANGED <<sesiones, sesionSeq, estadisticas, varsPago, calc,
                       periodo>>

\* Sesion.create of call c, up to the write of the document
insertarSesion(c) ==
    /\ enVuelo[c].pc = "insertar"
    /\ sesionSeq < MaxSesiones
    /\ LET e == enVuelo[c]
           doc == NuevaSesion(sesionSeq + 1, e.datos.paciente, e.fecha,
                              e.numeroOrden, e.numeroSesion, e.datos.estado,
                              e.datos.pago)
           error == IF ~ValidarSesion(doc) THEN "validacion"
                    ELSE IF ~IndiceOrden(sesiones, doc) THEN "duplicado"
                    ELSE ""
       IN  IF error # ""
           THEN /\ enVuelo' = [enVuelo EXCEPT ![c] =
                                  Hecha("registrar", FALSE, error, 0) @@
                                  [vistas |-> e.vistas]]
                /\ resSesion' = Res("registrar", FALSE, error, 0, 0, e.datos,
                                    FALSE, SinSalida)
                /\ UNCHANGED <<sesiones, sesionSeq>>
           ELSE /\ sesiones' = sesiones \cup {preSaveSesion(doc, e.ahora)}
                /\ sesionSeq' = sesionSeq + 1
                /\ enVuelo' = [enVuelo EXCEPT ![c] =
                      [pc |-> "agregar", op |-> "registrar", error |-> "",
                       datos |-> e.datos, id |-> doc.id,
                       paciente |-> doc.paciente, vistas |-> e.vistas]]
                /\ UNCHANGED resSesion
    /\ UNCHANGED <<sesionOps, estadisticas, varsPago, calc, periodo>>

\* the post-save hook of call c: Sesion.aggregate over the patient's sessions
agregarEnVuelo(c) ==
    /\ enVuelo[c].pc = "agregar"
    /\ enVuelo' = [enVuelo EXCEPT ![c] =
          [@ EXCEPT !.pc = "actualizar"] @@
          [stats |-> agregarEstadisticas(
                        {x \in sesiones : x.paciente = enVuelo[c].paciente},
                        EstadisticasCero)]]
    /\ UNCHANGED <<varsSesion, varsPago, calc, periodo>>

\* the post-save hook of call c: Paciente.findByIdAndUpdate with the
\* aggregate it computed, after which registrarSesion returns
actualizarPaciente(c) ==
    /\ enVuelo[c].pc = "actualizar"
    /\ LET e == enVuelo[c]
       IN  /\ estadisticas' = [estadisticas EXCEPT ![e.paciente] = e.stats]
           /\ enVuelo' = [enVuelo EXCEPT ![c] =
                 Hecha("registrar", TRUE, "", e.id) @@
                 [paciente |-> e.paciente, vistas |-> e.vistas,
                  datos |-> e.datos]]
           /\ resSesion' = Res("registrar", TRUE, "", e.id, 0, e.datos, FALSE,
                               SinSalida)
    /\ UNCHANGED <<sesiones, sesionSeq, sesionOps, varsPago, calc, periodo>>

\* cancelarSesion up to and including Sesion.create of the new session (with
\* its post-save recomputation), as call c; without nuevaFecha only the read
crearReprogramada(c, id, motivo, nuevaFecha) ==
    /\ enVuelo[c].pc \in {"inactiva", "hecha"}
    /\ sesionOps < MaxSesOps
    /\ nuevaFecha.t = "ausente" \/ sesionSeq < MaxSesiones
    /\ sesionOps' = sesionOps + 1
    /\ UNCHANGED <<varsPago, calc, periodo>>
    /\ LET entrada == [motivo |-> motivo, nuevaFecha |-> nuevaFecha]
           fallida(error) ==
              /\ enVuelo' = [enVuelo EXCEPT ![c] =
                                Hecha("cancelar", FALSE, error, 0)]
              /\ resSesion' = Res("cancelar", FALSE, error, 0, 0, entrada,
                                  FALSE, SinSalida)
              /\ UNCHANGED <<sesiones, sesionSeq, estadisticas>>
           sigue(copia, nueva) ==
              enVuelo' = [enVuelo EXCEPT ![c] =
                 [pc |-> "guardar", op |-> "cancelar", id |-> id,
                  copia |-> copia, motivo |-> motivo, nueva |-> nueva,
                  entrada |-> entrada, ahora |-> sesionOps + 1]]
       IN  IF ~Existe(sesiones, id) THEN fallida("noEncontrado")
           ELSE IF nuevaFecha.t = "ausente"
           THEN /\ sigue(Registro(sesiones, id), 0)
                /\ UNCHANGED <<sesiones, sesionSeq, estadisticas, resSesion>>
           ELSE IF EsFechaInvalida(NuevaFecha(nuevaFecha))
           THEN fallida("fecha")
           ELSE LET sesion == Registro(sesiones, id)
                    nuevaSesion == sesionReprogramada(sesion,
                                      NuevaFecha(nuevaFecha), sesiones,
                                      sesionSeq)
                    g == GuardarSesion(sesiones, estadisticas, nuevaSesion,
                                       sesionOps + 1, FALSE)
                IN  IF ~g.ok THEN fallida(g.error)
                    ELSE /\ sesiones' = g.store
                         /\ estadisticas' = g.stats
                         /\ sesionSeq' = sesionSeq + 1
                         /\ sigue(sesion, nuevaSesion.id)
                         /\ UNCHANGED resSesion

\* the end of cancelarSesion as call c: sesion.save() of the original, which
\* writes the paths the call changed on its copy (estado, motivoCancelacion
\* and, with a new session, the link), with its post-save recomputation
guardarCancelada(c) ==
    /\ enVuelo[c].pc = "guardar"
    /\ Existe(sesiones, enVuelo[c].id)
    /\ LET e == enVuelo[c]
           actual == Registro(sesiones, e.id)
           doc == [actual EXCEPT
                      !.estado = IF e.copia.estado # "cancelada"
                                 THEN "cancelada" ELSE @,
                      !.motivoCancelacion =
                          IF Recortar(e.motivo) # e.copia.motivoCancelacion
                          THEN Recortar(e.motivo) ELSE @,
                      !.sesionReprogramada =
                          IF e.nueva # 0 THEN e.nueva ELSE @]
           g == GuardarSesion(sesiones, estadisticas, doc, e.ahora, FALSE)
       IN  /\ sesiones' = g.store
           /\ estadisticas' = g.stats
           /\ enVuelo' = [enVuelo EXCEPT ![c] =
                 Hecha("cancelar", g.ok, g.error, IF g.ok THEN e.id ELSE 0)]
           /\ resSesion' = Res("cancelar", g.ok, g.error,
                               IF g.ok THEN e.id ELSE 0, e.nueva, e.entrada,
                               FALSE, SinSalida)
    /\ UNCHANGED <<sesionSeq, sesionOps, varsPago, calc, periodo>>

-----------------------------------------------------------------------------
(* Payroll ledger: inputs and specification *)

Datos(fecha, monto, distribucion) ==
    [fecha |-> fecha, monto |-> monto, distribucion |-> distribucion,
     anio |-> Nada, mes |-> Nada, semana |-> Nada, diaSemana |-> Indefinido,
     estado |-> Indefinido]

\* 2025-07-01 and 2025-07-29, as the date-only strings a caller sends
F1 == Iso(2025, 7, 1, 0)
F2 == Iso(2025, 7, 29, 0)

DatosPago ==
    {Datos(F1, Num(0), SinDistribucion), Datos(F1, Num(0), Dist(10, 0, 0)),
     Datos(F1, Num(0), Dist(40, 30, 30)),
     Datos(F1, Num(5), SinDistribucion), Datos(F1, Num(5), Dist(10, 0, 0)),
     Datos(F1, Num(100), SinDistribucion), Datos(F1, Num(100), Dist(40, 30, 30)),
     Datos(F1, Num(100), Dist(40, 30, 60)),
     Datos(F2, Num(0), SinDistribucion), Datos(F2, Num(100), SinDistribucion),
     Datos(FechaTexto, Num(100), SinDistribucion),
     Datos(F1, Num(-1), SinDistribucion),
     [Datos(F1, Num(100), SinDistribucion) EXCEPT !.estado = "pagado"],
     [Datos(F2, Num(100), SinDistribucion) EXCEPT !.semana = Num(1)],
     [Datos(F2, Num(100), SinDistribucion) EXCEPT !.diaSemana = "feriado"]}

DatosLote ==
    {Datos(F1, Num(100), SinDistribucion), Datos(F2, Num(5), SinDistribucion),
     Datos(F1, Num(-1), SinDistribucion)}

Lotes ==
    {<< >>} \cup {<<a>> : a \in DatosLote}
            \cup {<<a, b>> : a \in DatosLote, b \in DatosLote}

SinCambios == Datos(FechaAusente, Nada, SinDistribucion)

Cambios ==
    {[SinCambios EXCEPT !.fecha = F1],
     [SinCambios EXCEPT !.fecha = F2],
     [SinCambios EXCEPT !.fecha = FechaTexto],
     [SinCambios EXCEPT !.semana = Num(1)],
     [SinCambios EXCEPT !.monto = Num(0)],
     [SinCambios EXCEPT !.monto = Num(100)],
     [SinCambios EXCEPT !.monto = Num(-1)],
     [SinCambios EXCEPT !.distribucion = Dist(40, 30, 60)],
     [SinCambios EXCEPT !.mes = Num(13)],
     [SinCambios EXCEPT !.fecha = F2, !.monto = Num(-1)],
     [SinCambios EXCEPT !.monto = Num(100), !.estado = "anulado"]}

Periodos == {<<2025, 7>>}

PagoVacio ==
    /\ pagos = {}
    /\ pagoSeq = 0
    /\ pagoOps = 0
    /\ respuesta = RespInicial
    /\ planilla = PlanillaVacia

InitPago ==
    /\ PagoVacio
    /\ enVuelo = SinLlamadas
    /\ calc = [fase |-> "inactivo"]
    /\ periodo = [fase |-> "inactivo"]
    /\ SesionVacio

NextPago ==
    \/ \E d \in DatosPago, u \in Usuarios : crearOActualizarPago(d, u)
    \/ \E l \in Lotes : crearMultiplesPagos(l, "u1")
    \/ \E id \in 1..MaxPagos, c \in Cambios : actualizarRegistro(id, c, "u2")
    \/ \E id \in 1..MaxPagos : eliminarRegistro(id)
    \/ \E a \in Periodos : obtenerPlanillaMes(a[1], a[2])

SpecPago == InitPago /\ [][NextPago]_vars

-----------------------------------------------------------------------------
(* Payroll ledger: claims *)

RECURSIVE SumaDe(_, _)
\* the sum of campo[p] over the elements of S
SumaDe(S, campo) ==
    IF S = {} THEN 0
    ELSE LET p == CHOOSE x \in S : TRUE
         IN  campo[p] + SumaDe(S \ {p}, campo)

\* the integer nearest to v / 100, halves going up
EsRedondeo(c, v) == 100 * c <= v + 50 /\ v + 50 < 100 * c + 100

\* C1: every stored entry's three shares sum to its monto
SumaExacta ==
    \A p \in pagos : SumaPartes(p.distribucion) = p.monto

\* C2: at most one stored entry per (anio, mes, semana, fecha)
ClaveUnica ==
    \A p \in pagos, q \in pagos : Clave(p) = Clave(q) => p = q

\* C2 witness: a second entry for a taken key was refused, both keys in store
ClaveUnicaTestigo ==
    /\ respuesta.op = "actualizar"
    /\ respuesta.error = "duplicado"
    /\ Cardinality(pagos) = 2

\* an upsert has just succeeded
UpsertHecho ==
    /\ respuesta'.op = "upsert"
    /\ respuesta'.ok
    /\ pagoOps' = pagoOps + 1

OverrideDado ==
    /\ respuesta.op = "upsert"
    /\ respuesta.ok
    /\ respuesta.distribucion.dada
    /\ Abs(SumaPartes(respuesta.distribucion) - respuesta.monto) <= Tolerancia

DelPeriodo(store, anio, mes) == {p \in store : p.anio = anio /\ p.mes = mes}


\* C8: the month-sheet's totals are the sums of monto and of each share over
\* all the stored entries of the period, and the grand total is the sum of the
\* weeks' subtotals
TotalesPlanilla ==
    planilla.dada =>
        LET S == DelPeriodo(pagos, planilla.anio, planilla.mes)
        IN  /\ planilla.totales.total = SumaDe(S, [p \in S |-> p.monto])
            /\ planilla.totales.distribucion.farfan =
                  SumaDe(S, [p \in S |-> p.distribucion.farfan])
            /\ planilla.totales.distribucion.mica =
                  SumaDe(S, [p \in S |-> p.distribucion.mica])
            /\ planilla.totales.distribucion.ffma =
                  SumaDe(S, [p \in S |-> p.distribucion.ffma])
            /\ planilla.totales.total =
                  SumaDe(DOMAIN planilla.semanas,
                         [n \in DOMAIN planilla.semanas |->
                            planilla.semanas[n].subtotal])

\* C8 witness: a sheet over two entries with positive monto that fall in the
\* same week under the same day name
TotalesPlanillaTestigo ==
    /\ planilla.dada
    /\ planilla.totales.total = 200
    /\ DOMAIN planilla.semanas = {1}
    /\ DOMAIN planilla.semanas[1].dias = {"martes"}
    /\ Cardinality(DelPeriodo(pagos, planilla.anio, planilla.mes)) = 2

\* the store and counter after the first j items of the list l were
\* upserted one after another by usuarioId, for j up to 2
TrasItems(store, seq, l, usuarioId, j) ==
    IF j = 0 THEN [ok |-> TRUE, error |-> "", store |-> store, seq |-> seq,
                   esNuevo |-> FALSE, id |-> 0]
    ELSE IF j = 1 THEN upsertRegistro(store, seq, l[1], usuarioId)
    ELSE upsertRegistro(upsertRegistro(store, seq, l[1], usuarioId).store,
                        upsertRegistro(store, seq, l[1], usuarioId).seq,
                        l[2], usuarioId)

\* the entry id of the store despues is in estado 'pendiente', has the
\* creadoPor it had in the store antes, and usuarioId as modificadoPor
EstadoReiniciado(antes, despues, id, usuarioId) ==
    /\ Registro(despues, id).estado = "pendiente"
    /\ Registro(despues, id).creadoPor = Registro(antes, id).creadoPor
    /\ Registro(despues, id).modificadoPor = usuarioId

\* C30: an upsert that hits an existing entry and supplies no estado, made
\* by crearOActualizarPago or as an item of crearMultiplesPagos, stores
\* estado 'pendiente' whatever the stored estado was, leaves creadoPor
\* unchanged and sets modificadoPor to the caller
UpsertReiniciaEstado ==
    [][ /\ (UpsertHecho /\ ~respuesta'.creado
                        /\ respuesta'.estado = Indefinido)
              => EstadoReiniciado(pagos, pagos', respuesta'.id,
                                  respuesta'.usuario)
        /\ (respuesta'.op = "lote" /\ respuesta'.ok
                                   /\ pagoOps' = pagoOps + 1)
              => LET l == respuesta'.lote
                     u == respuesta'.usuario
                     t(j) == TrasItems(pagos, pagoSeq, l, u, j)
                 IN  \A j \in 1..Len(l) :
                        (~t(j).esNuevo /\ l[j].estado = Indefinido)
                           => EstadoReiniciado(t(j - 1).store,
                                 IF j = Len(l) THEN pagos' ELSE t(j).store,
                                 t(j).id, u)
      ]_vars

\* C30 witness: an upsert without estado has hit an entry that was 'pagado'
\* and was created by another user; the entry is now 'pendiente'
UpsertReiniciaEstadoTestigo ==
    /\ respuesta.op = "upsert"
    /\ respuesta.ok
    /\ ~respuesta.creado
    /\ respuesta.estado = Indefinido
    /\ respuesta.previo = "pagado"
    /\ Registro(pagos, respuesta.id).estado = "pendiente"
    /\ Registro(pagos, respuesta.id).creadoPor # respuesta.usuario
    /\ Registro(pagos, respuesta.id).modificadoPor = respuesta.usuario

\* the sum of a quantity over the day-records a week of the sheet holds
SumaDias(sem, parte(_)) ==
    SumaDe(DOMAIN sem.dias, [d \in DOMAIN sem.dias |-> parte(sem.dias[d])])

MontoDelDia(dia) == dia.monto
FarfanDelDia(dia) == dia.distribucion.farfan
MicaDelDia(dia) == dia.distribucion.mica
FfmaDelDia(dia) == dia.distribucion.ffma

\* C29: in every month-sheet returned, each week's subtotal is the sum of
\* monto over the day-records of that week's dias map, and each of the
\* week's three distribution subtotals is the sum of that share over them
SubtotalPorDias ==
    planilla.dada =>
        \A n \in DOMAIN planilla.semanas :
            LET sem == planilla.semanas[n]
            IN  /\ sem.subtotal = SumaDias(sem, MontoDelDia)
                /\ sem.distribucion.farfan = SumaDias(sem, FarfanDelDia)
                /\ sem.distribucion.mica = SumaDias(sem, MicaDelDia)
                /\ sem.distribucion.ffma = SumaDias(sem, FfmaDelDia)

ErroresDeDatos == {"fecha", "monto", "diaSemana", "estado"}

\* C25: a crearOActualizarPago or actualizarRegistro call that fails on an
\* unparseable date, a negative or non-numeric monto, an unknown diaSemana
\* or an unknown estado leaves every stored entry as it was, also when valid
\* fields come before the invalid one
ValidacionSinEscritura ==
    [][(/\ pagoOps' = pagoOps + 1
        /\ respuesta'.op \in {"upsert", "actualizar"}
        /\ ~respuesta'.ok
        /\ respuesta'.error \in ErroresDeDatos)
          => /\ pagos' = pagos
             /\ pagoSeq' = pagoSeq
      ]_vars

\* C25 witness: an update of a stored entry with a valid new fecha and a
\* negative monto has failed on the monto
ValidacionSinEscrituraTestigo ==
    /\ respuesta.op = "actualizar"
    /\ ~respuesta.ok
    /\ respuesta.error = "monto"
    /\ respuesta.datos.fecha = F2
    /\ pagos # {}

\* C27: every stored entry has farfan, mica and ffma of at least 0
PartesNoNegativas ==
    \A p \in pagos :
        /\ p.distribucion.farfan >= 0
        /\ p.distribucion.mica >= 0
        /\ p.distribucion.ffma >= 0

-----------------------------------------------------------------------------
(* Money distribution calculator on its own *)

MaxMonto == 130

DistribucionesCalc ==
    {SinDistribucion, Dist(0, 0, 0), Dist(40, 30, 30), Dist(40, 30, 60),
     Dist(10, 0, 0), Dist(0, 0, 60), Dist(60, 80, 0)}

InitCalc ==
    /\ PagoVacio
    /\ enVuelo = SinLlamadas
    /\ SesionVacio
    /\ periodo = [fase |-> "inactivo"]
    /\ calc \in {[fase |-> "entrada", monto |-> m, distribucion |-> d,
                  resultado |-> Partes(0, 0, 0)] :
                    m \in 0..MaxMonto, d \in DistribucionesCalc}

Calcular ==
    /\ calc.fase = "entrada"
    /\ calc' = [calc EXCEPT
                  !.fase = "salida",
                  !.resultado = calcularDistribucion(calc.monto, calc.distribucion)]
    /\ UNCHANGED <<varsPago, periodo, varsSesion, enVuelo>>

NextCalc == Calcular

SpecCalc == InitCalc /\ [][NextCalc]_vars

\* C4: with no distribution supplied, farfan and mica are 0.30 and 0.20 of
\* monto rounded to the cent and ffma is what is left of monto, so the three
\* sum to monto
RepartoPorRatios ==
    (calc.fase = "salida" /\ ~calc.distribucion.dada) =>
        /\ EsRedondeo(calc.resultado.farfan, 30 * calc.monto)
        /\ EsRedondeo(calc.resultado.mica, 20 * calc.monto)
        /\ calc.resultado.ffma =
              calc.monto - calc.resultado.farfan - calc.resultado.mica
        /\ SumaPartes(calc.resultado) = calc.monto

\* C4 witness: 0.05 split as 0.02 / 0.01 / 0.02, where half of it rounds to 0.03
RepartoPorRatiosTestigo ==
    /\ calc.fase = "salida"
    /\ ~calc.distribucion.dada
    /\ calc.monto = 5
    /\ calc.resultado = Partes(2, 1, 2)
    /\ EsRedondeo(3, 50 * calc.monto)

\* the condition under which the contract asks for a recalculation
DebeRecalcular ==
    \/ ~calc.distribucion.dada
    \/ (calc.distribucion.farfan = 0 /\ calc.distribucion.mica = 0
        /\ calc.distribucion.ffma = 0)
    \/ Abs(SumaPartes(calc.distribucion) - calc.monto) > Tolerancia

\* C5: the shares are recomputed from the ratios exactly when the distribution
\* is absent, all zero, or off monto by more than 0.5, also for a monto of 0
RecalculoExacto ==
    calc.fase = "salida" =>
        IF DebeRecalcular
        THEN /\ EsRedondeo(calc.resultado.farfan, 30 * calc.monto)
             /\ EsRedondeo(calc.resultado.mica, 20 * calc.monto)
             /\ SumaPartes(calc.resultado) = calc.monto
        ELSE calc.resultado =
                Partes(calc.distribucion.farfan, calc.distribucion.mica,
                       calc.distribucion.ffma)

-----------------------------------------------------------------------------
(* Period resolver on its own *)

\* calendar years covered, from 2024 on
MaxAnios == 2

FechasCalendario ==
    {Iso(y, m, d, ms) :
        y \in 2024..(2023 + MaxAnios), m \in 1..12, d \in 1..31,
        ms \in {0, MsDia - 1}}

InitPeriodo ==
    /\ PagoVacio
    /\ enVuelo = SinLlamadas
    /\ SesionVacio
    /\ calc = [fase |-> "inactivo"]
    /\ periodo \in {[fase |-> "entrada", fecha |-> f, anio |-> 0, mes |-> 0,
                     semana |-> 0, diaSemana |-> Indefinido] :
                       f \in {x \in FechasCalendario :
                                 x.d <= DiasDelMes(x.y, x.m)}}

\* the period _normalizarDatos derives when only fecha is supplied
ResolverPeriodo ==
    /\ periodo.fase = "entrada"
    /\ LET n == normalizarDatos(Datos(periodo.fecha, Nada, SinDistribucion))
       IN  periodo' = [periodo EXCEPT !.fase = IF n.ok THEN "salida" ELSE "error",
                          !.anio = n.anio, !.mes = n.mes, !.semana = n.semana,
                          !.diaSemana = n.diaSemana]
    /\ UNCHANGED <<varsPago, calc, varsSesion, enVuelo>>

NextPeriodo == ResolverPeriodo

SpecPeriodo == InitPeriodo /\ [][NextPeriodo]_vars

\* the weekday of a calendar date by the table method, 0 = Sunday
DiaDeTabla(y, m, d) ==
    LET t == <<0, 3, 2, 5, 0, 3, 5, 1, 4, 6, 2, 4>>
        yy == IF m < 3 THEN y - 1 ELSE y
    IN  (yy + yy \div 4 - yy \div 100 + yy \div 400 + t[m] + d) % 7

NombreDomingoPrimero ==
    [i \in 0..6 |->
        CASE i = 0 -> "domingo" [] i = 1 -> "lunes" [] i = 2 -> "martes"
          [] i = 3 -> "miercoles" [] i = 4 -> "jueves" [] i = 5 -> "viernes"
          [] OTHER -> "sabado"]

\* C7: for every calendar date the derived period is the date's year, its
\* month in 1..12, the 7-day bucket of its day capped at 5, and the
\* Sunday-first name of its weekday
PeriodoDerivado ==
    periodo.fase # "entrada" =>
        LET f == periodo.fecha
        IN  /\ periodo.fase = "salida"
            /\ periodo.anio = f.y
            /\ periodo.mes = f.m
            /\ periodo.mes \in 1..12
            /\ periodo.semana =
                  (IF f.d <= 7 THEN 1 ELSE IF f.d <= 14 THEN 2
                   ELSE IF f.d <= 21 THEN 3 ELSE IF f.d <= 28 THEN 4 ELSE 5)
            /\ periodo.diaSemana = NombreDomingoPrimero[DiaDeTabla(f.y, f.m, f.d)]

\* C7 witness: 2025-07-29, a Tuesday of July, resolved to week 5
PeriodoDerivadoTestigo ==
    /\ periodo.fase = "salida"
    /\ periodo.fecha = Iso(2025, 7, 29, 0)
    /\ periodo.anio = 2025
    /\ periodo.mes = 7
    /\ periodo.semana = 5
    /\ periodo.diaSemana = "martes"

-----------------------------------------------------------------------------
(* Session ledger: inputs and specifications *)

\* 2025-07-01 at 00:00:00.000 and at 23:59:59.999, and 2025-07-02
D1 == Iso(2025, 7, 1, 0)
D1fin == Iso(2025, 7, 1, MsDia - 1)
D2 == Iso(2025, 7, 2, 0)

DatosSesion(paciente, fecha) ==
    [paciente |-> paciente, fecha |-> fecha, numeroOrden |-> 0,
     numeroSesion |-> 0, estado |-> Indefinido, pago |-> SinPago]

\* registrations that leave numeroOrden to the service
RegistrosSinOrden ==
    {DatosSesion(p, f) : p \in Pacientes, f \in {D1, D1fin, D2}}
    \cup {DatosSesion("px", D1), DatosSesion("p1", FechaTexto),
          DatosSesion("p1", FechaAusente),
          [DatosSesion("p1", D1) EXCEPT !.numeroSesion = 7],
          [DatosSesion("p1", D1) EXCEPT !.pago = Pago(100, TRUE, Nada)],
          [DatosSesion("p1", D1) EXCEPT !.estado = "realizada"]}

Registros ==
    {DatosSesion("p1", D1), DatosSesion("p2", D1fin), DatosSesion("p1", D2),
     DatosSesion("px", D1),
     [DatosSesion("p1", D1) EXCEPT !.numeroOrden = 1],
     [DatosSesion("p1", D1) EXCEPT !.numeroSesion = 7],
     [DatosSesion("p1", D2) EXCEPT !.pago = Pago(100, TRUE, Nada)],
     [DatosSesion("p2", D2) EXCEPT !.pago = Pago(100, FALSE, Nada)]}

SinCambiosSesion == DatosSesion(Indefinido, FechaAusente)

CambiosSesion ==
    {[SinCambiosSesion EXCEPT !.fecha = D1],
     [SinCambiosSesion EXCEPT !.fecha = D2],
     [SinCambiosSesion EXCEPT !.numeroOrden = 1],
     [SinCambiosSesion EXCEPT !.numeroOrden = -1],
     [SinCambiosSesion EXCEPT !.estado = "realizada"],
     [SinCambiosSesion EXCEPT !.paciente = "p2"],
     [SinCambiosSesion EXCEPT !.pago = Pago(100, TRUE, Nada)],
     [SinCambiosSesion EXCEPT !.pago = Pago(100, FALSE, Num(9))]}

PagosDePlanilla ==
    {[SinCambiosSesion EXCEPT !.pago = Pago(100, TRUE, Nada)],
     [SinCambiosSesion EXCEPT !.pago = Pago(100, FALSE, Nada)]}

InitSesion ==
    /\ PagoVacio
    /\ enVuelo = SinLlamadas
    /\ SesionVacio
    /\ calc = [fase |-> "inactivo"]
    /\ periodo = [fase |-> "inactivo"]

DatosDePago ==
    {[monto |-> Nada, metodoPago |-> Indefinido],
     [monto |-> Num(50), metodoPago |-> "efectivo"]}

NuevasFechas == {FechaAusente, D1, D2, FechaTexto}

\* 'viaje' and ' gripe '
Motivos == {<<"v", "i", "a", "j", "e">>, <<" ", "g", "r", "i", "p", "e", " ">>}

NextSesion ==
    \/ \E d \in Registros : registrarSesion(d, FALSE)
    \/ \E id \in 1..MaxSesiones, c \in CambiosSesion :
          actualizarSesion(id, c, FALSE)
    \/ \E id \in 1..MaxSesiones, d \in DatosDePago :
          registrarPago(id, d, FALSE)
    \/ \E id \in 1..MaxSesiones, m \in Motivos, f \in NuevasFechas :
          cancelarSesion(id, m, f, FALSE)
    \/ \E id \in 1..MaxSesiones, c \in PagosDePlanilla :
          actualizarDesdePlanilla(id, c, FALSE)

SpecSesion == InitSesion /\ [][NextSesion]_vars

NextRegistro == \E d \in RegistrosSinOrden : registrarSesion(d, FALSE)

SpecRegistro == InitSesion /\ [][NextRegistro]_vars

\* two instants of the same UTC calendar day
MismoDia(a, b) == a.dia = b.dia

\* C9: registrations run one after another without an explicit numeroOrden
\* number each day's sessions 1, 2, ..., n in registration order
OrdenPorRegistro ==
    \A x \in sesiones :
        x.numeroOrden =
            Cardinality({y \in sesiones :
                            MismoDia(y.fecha, x.fecha) /\ y.id <= x.id})

\* C9 witness: three sessions registered for 2025-07-01, the third one at
\* the last millisecond of the day, numbered 1, 2, 3
OrdenPorRegistroTestigo ==
    /\ resSesion.op = "registrar"
    /\ resSesion.ok
    /\ \E x \in sesiones, y \in sesiones, z \in sesiones :
          /\ x.id < y.id /\ y.id < z.id
          /\ x.fecha = NuevaFecha(D1) /\ y.fecha = NuevaFecha(D1fin)
          /\ z.fecha = NuevaFecha(D1)
          /\ x.numeroOrden = 1 /\ y.numeroOrden = 2 /\ z.numeroOrden = 3

\* C10: no two sessions of the same UTC calendar day share a numeroOrden
OrdenUnicoPorDia ==
    \A x \in sesiones, y \in sesiones :
        (x.id # y.id /\ MismoDia(x.fecha, y.fecha))
            => x.numeroOrden # y.numeroOrden

\* a session operation has just returned without throwing
SesionHecha(op) ==
    /\ resSesion'.op = op
    /\ resSesion'.ok
    /\ sesionOps' = sesionOps + 1

DelPaciente(store, paciente) == {x \in store : x.paciente = paciente}

\* C11 as stated: over each patient's sessions in creation order numeroSesion
\* is strictly increasing, and a session registered without a numeroSesion as
\* the patient's N-th gets numeroSesion = N
NumeroSesionCreciente ==
    /\ \A x \in sesiones, y \in sesiones :
          (x.paciente = y.paciente /\ x.id < y.id)
              => x.numeroSesion < y.numeroSesion
    /\ ( /\ resSesion.op = "registrar"
         /\ resSesion.ok
         /\ resSesion.entrada.numeroSesion = 0 )
          => LET x == Registro(sesiones, resSesion.id)
             IN  x.numeroSesion = Cardinality(DelPaciente(sesiones, x.paciente))

\* C11 amended: a session registered without a numeroSesion gets the number
\* of sessions stored for its patient (any estado, reschedules included)
\* plus one, a session registered with a numeroSesion keeps it, and the
\* session that a cancellation with a new date creates carries the
\* numeroSesion and the paciente of the session it reschedules
NumeroSesionAsignado ==
    [][ /\ SesionHecha("registrar")
           => LET x == Registro(sesiones', resSesion'.id)
                  n == resSesion'.entrada.numeroSesion
              IN  x.numeroSesion =
                     IF n = 0
                     THEN Cardinality(DelPaciente(sesiones, x.paciente)) + 1
                     ELSE n
        /\ (SesionHecha("cancelar") /\ resSesion'.nueva # 0)
           => LET x == Registro(sesiones', resSesion'.nueva)
                  o == Registro(sesiones, resSesion'.id)
              IN  /\ x.numeroSesion = o.numeroSesion
                  /\ x.paciente = o.paciente
      ]_vars

\* C11 witness: p1's first session was cancelled and rescheduled, both carry
\* numeroSesion 1, and the session registered next for p1 got numeroSesion 3
NumeroSesionAsignadoTestigo ==
    /\ resSesion.op = "registrar"
    /\ resSesion.ok
    /\ resSesion.entrada.numeroSesion = 0
    /\ Registro(sesiones, resSesion.id).numeroSesion = 3
    /\ \E x \in sesiones, y \in sesiones :
          /\ x.estado = "cancelada" /\ y.estado = "reprogramada"
          /\ x.sesionReprogramada = y.id
          /\ x.paciente = "p1" /\ y.paciente = "p1"
          /\ x.numeroSesion = 1 /\ y.numeroSesion = 1
          /\ Registro(sesiones, resSesion.id).paciente = "p1"

\* C12: every stored session has pago.fechaPago set if and only if
\* pago.pagado is true
FechaPagoSiiPagado ==
    \A x \in sesiones : (x.pago.fechaPago # 0) <=> x.pago.pagado

Ids(store) == {x.id : x \in store}

\* corto is texto without the blanks around it
EsRecorte(corto, texto) ==
    /\ corto # << >> => (corto[1] # " " /\ corto[Len(corto)] # " ")
    /\ \E i \in 0..Len(texto), j \in 0..Len(texto) :
          /\ i <= j
          /\ corto = SubSeq(texto, i + 1, j)
          /\ \A k \in (1..i) \cup ((j + 1)..Len(texto)) : texto[k] = " "

\* what C13 says of a cancellation that has just returned, MotivoComo(m, t)
\* telling whether m is the motivo to be stored for the motivo t given
CancelacionCompleta(MotivoComo(_, _)) ==
    LET e == resSesion'.entrada
        antes == Registro(sesiones, resSesion'.id)
        o == Registro(sesiones', resSesion'.id)
    IN  /\ o.estado = "cancelada"
        /\ MotivoComo(o.motivoCancelacion, e.motivo)
        /\ IF e.nuevaFecha.t # "ausente"
           THEN /\ Ids(sesiones') = Ids(sesiones) \cup {resSesion'.nueva}
                /\ resSesion'.nueva \notin Ids(sesiones)
                /\ o.sesionReprogramada = resSesion'.nueva
                /\ LET n == Registro(sesiones', resSesion'.nueva)
                   IN  /\ n.estado = "reprogramada"
                       /\ n.paciente = antes.paciente
                       /\ n.numeroSesion = antes.numeroSesion
                       /\ n.fecha = NuevaFecha(e.nuevaFecha)
           ELSE /\ Ids(sesiones') = Ids(sesiones)
                /\ resSesion'.nueva = 0
                /\ o.sesionReprogramada = antes.sesionReprogramada

\* C13 as stated: when cancelarSesion returns, the session is stored as
\* 'cancelada' with motivoCancelacion = motivo. With a nuevaFecha exactly one
\* session was created: it is 'reprogramada', has the paciente and the
\* numeroSesion of the original and nuevaFecha as fecha, and the original's
\* sesionReprogramada is its id. Without a nuevaFecha no session was created
\* and the original's sesionReprogramada is what it was.
CancelacionEnlazada ==
    [][SesionHecha("cancelar")
          => CancelacionCompleta(LAMBDA m, t : m = t)]_vars

\* C13 amended: the same, with motivoCancelacion being the motivo without
\* the blanks around it
CancelacionRecortada ==
    [][SesionHecha("cancelar")
          => CancelacionCompleta(EsRecorte)]_vars

\* C13 witness: p1's second session, numbered 2, was cancelled for ' gripe '
\* and rescheduled to 2025-07-02; the session created is the third one and
\* the motivo stored is 'gripe'
CancelacionRecortadaTestigo ==
    /\ resSesion.op = "cancelar"
    /\ resSesion.ok
    /\ resSesion.entrada =
          [motivo |-> <<" ", "g", "r", "i", "p", "e", " ">>, nuevaFecha |-> D2]
    /\ resSesion.id = 2
    /\ resSesion.nueva = 3
    /\ LET o == Registro(sesiones, 2)
           n == Registro(sesiones, 3)
       IN  /\ o.estado = "cancelada"
           /\ o.motivoCancelacion = <<"g", "r", "i", "p", "e">>
           /\ o.sesionReprogramada = 3 /\ o.numeroSesion = 2
           /\ n.estado = "reprogramada" /\ n.numeroSesion = 2
           /\ n.paciente = "p1" /\ n.fecha = NuevaFecha(D2)

\* C14: a session whose sesionReprogramada is set keeps pointing to the same
\* session, and a cancellation of it creates no further session
UnSoloReprograma ==
    [][\A x \in sesiones :
          x.sesionReprogramada # 0
              => /\ \A y \in sesiones' :
                       y.id = x.id
                           => y.sesionReprogramada = x.sesionReprogramada
                 /\ (SesionHecha("cancelar") /\ resSesion'.id = x.id)
                       => Ids(sesiones') = Ids(sesiones)
      ]_vars

\* C15: a session whose estado is not 'programada' keeps its estado
EstadoTerminal ==
    [][\A x \in sesiones, y \in sesiones' :
          (y.id = x.id /\ y.estado # x.estado) => x.estado = "programada"
      ]_vars

\* C16: when registrarPago returns, the session's pago is the stored one with
\* the fields given laid over it and pagado = true; its fechaPago is the
\* current time when the session had none, and otherwise the one it had
PagoConFechaPrimera ==
    [][SesionHecha("pago") =>
        LET d == resSesion'.entrada
            antes == Registro(sesiones, resSesion'.id).pago
            pago == Registro(sesiones', resSesion'.id).pago
        IN  /\ pago.pagado
            /\ pago.monto = NumeroDe(d.monto, antes.monto)
            /\ pago.metodoPago = IF d.metodoPago = Indefinido
                                 THEN antes.metodoPago ELSE d.metodoPago
            /\ pago.fechaPago = IF antes.fechaPago = 0
                                THEN sesionOps' ELSE antes.fechaPago
      ]_vars

\* the statistics of a patient computed from the patient's sessions S
Agregado(S) ==
    [totalSesiones |-> Cardinality(S),
     totalAbonado |-> SumaMontos({x \in S : x.pago.pagado}),
     saldoPendiente |-> SumaMontos({x \in S : ~x.pago.pagado}),
     ultimaSesion |->
        IF S = {} THEN FechaInvalida
        ELSE (CHOOSE x \in S :
                 \A y \in S : FechaMenorIgual(y.fecha, x.fecha)).fecha]

\* C17: every patient's stored estadisticas are the aggregation over the
\* patient's sessions of any estado
EstadisticasAlDia ==
    \A p \in Pacientes :
        estadisticas[p] = Agregado(DelPaciente(sesiones, p))

-----------------------------------------------------------------------------
(* Session ledger with a statistics recomputation that may fail *)

RegistrosProyector ==
    {DatosSesion("p1", D1), DatosSesion("px", D1),
     [DatosSesion("p2", D2) EXCEPT !.pago = Pago(100, FALSE, Nada)],
     [DatosSesion("p1", D2) EXCEPT !.pago = PagoNulo(100)]}

CambiosProyector ==
    {[SinCambiosSesion EXCEPT !.estado = "realizada"],
     [SinCambiosSesion EXCEPT !.numeroOrden = -1],
     [SinCambiosSesion EXCEPT !.pago = Pago(100, TRUE, Nada)]}

Limites == {1, LimitePorDefecto}

NextProyector ==
    \/ \E d \in RegistrosProyector, falla \in BOOLEAN :
          registrarSesion(d, falla)
    \/ \E id \in 1..MaxSesiones, c \in CambiosProyector, falla \in BOOLEAN :
          actualizarSesion(id, c, falla)
    \/ \E id \in 1..MaxSesiones, d \in DatosDePago, falla \in BOOLEAN :
          registrarPago(id, d, falla)
    \/ \E id \in 1..MaxSesiones, f \in NuevasFechas, falla \in BOOLEAN :
          cancelarSesion(id, <<"g">>, f, falla)
    \/ \E id \in 1..MaxSesiones, c \in PagosDePlanilla, falla \in BOOLEAN :
          actualizarDesdePlanilla(id, c, falla)
    \/ \E p \in Pacientes \cup {"px"} : obtenerHistorialPaciente(p)
    \/ \E limit \in Limites, p \in Pacientes \cup {Indefinido} :
          obtenerPagosPendientes(limit, p)

SpecProyector == InitSesion /\ [][NextProyector]_vars

\* the errors the session operations throw themselves
ErroresDeSesion == {"noEncontrado", "fecha", "validacion"}

\* C18: when the statistics recomputation fails during a session operation,
\* the operation throws only for its own reasons (session or patient not
\* found, invalid date, validation) and then writes nothing; otherwise it
\* returns its success result, the session it wrote (and the session a
\* reschedule created) is stored with the operation's effect, and the
\* statistics are left as they were
ProyectorNoAborta ==
    [][(resSesion'.falla /\ sesionOps' = sesionOps + 1) =>
        /\ resSesion'.ok <=> resSesion'.error = ""
        /\ ~resSesion'.ok
              => /\ resSesion'.error \in ErroresDeSesion
                 /\ sesiones' = sesiones
                 /\ (resSesion'.op = "registrar"
                       /\ resSesion'.error = "noEncontrado")
                       => resSesion'.entrada.paciente \notin Pacientes
        /\ resSesion'.ok
              => /\ Existe(sesiones', resSesion'.id)
                 /\ estadisticas' = estadisticas
                 /\ LET x == Registro(sesiones', resSesion'.id)
                    IN  /\ resSesion'.op = "registrar"
                              => /\ ~Existe(sesiones, x.id)
                                 /\ x.paciente = resSesion'.entrada.paciente
                        /\ resSesion'.op = "pago" => x.pago.pagado
                        /\ resSesion'.op = "cancelar"
                              => /\ x.estado = "cancelada"
                                 /\ resSesion'.entrada.nuevaFecha.t # "ausente"
                                       => /\ Existe(sesiones', resSesion'.nueva)
                                          /\ ~Existe(sesiones, resSesion'.nueva)
                        /\ resSesion'.op = "actualizar"
                              => resSesion'.entrada.estado
                                    \in {Indefinido, x.estado}
                        /\ resSesion'.op = "planilla"
                              => x.pago.pagado = resSesion'.entrada.pago.pagado
      ]_vars

\* C18 witness: the payment of p2's session was registered while the
\* recomputation failed: the call returned, the session is stored as paid
\* and p2's statistics still show the amount as pending
ProyectorNoAbortaTestigo ==
    /\ resSesion.op = "pago"
    /\ resSesion.ok
    /\ resSesion.falla
    /\ LET x == Registro(sesiones, resSesion.id)
       IN  /\ x.paciente = "p2"
           /\ x.pago.pagado
           /\ x.pago.monto = 100
           /\ estadisticas["p2"].saldoPendiente = 100
           /\ estadisticas["p2"].totalAbonado = 0

\* the last operation was a completed obtenerHistorialPaciente(p)
HistorialDe(res, p) ==
    res.op = "historial" /\ res.ok /\ res.entrada.paciente = p

\* C19: after obtenerHistorialPaciente(p) completes, p's stored estadisticas
\* are the aggregation over all of p's sessions, whatever they were before;
\* a second run right after the first stores and returns the same; and the
\* stored statistics are what the post-save recomputation yields on the same
\* sessions
HistorialIdempotente ==
    [][\A p \in Pacientes :
          (HistorialDe(resSesion', p) /\ sesionOps' = sesionOps + 1) =>
             /\ estadisticas'[p] = Agregado(DelPaciente(sesiones', p))
             /\ HistorialDe(resSesion, p)
                   => /\ estadisticas'[p] = estadisticas[p]
                      /\ resSesion'.salida = resSesion.salida
             /\ estadisticas'[p] =
                   agregarEstadisticas(DelPaciente(sesiones', p),
                                       EstadisticasCero)
      ]_vars

\* the stored sessions with pago.pagado false, of the patient when one is given
Impagas(store, pacienteId) ==
    {x \in store : /\ ~x.pago.pagado /\ ~x.pago.nulo
                   /\ pacienteId # Indefinido => x.paciente = pacienteId}

\* C20: obtenerPagosPendientes returns as totalPendiente the sum of
\* pago.monto over all the stored unpaid sessions matching the patient
\* filter, of any estado and whatever the limit; cantidad is the number of
\* sessions returned, and the counts of porEstado and of porMetodoPago each
\* add up to cantidad
TotalPendienteExacto ==
    resSesion.op = "pendientes" =>
        LET r == resSesion.salida
        IN  /\ r.totalPendiente =
                  SumaMontos(Impagas(sesiones, resSesion.entrada.pacienteId))
            /\ r.cantidad = Cardinality(r.sesiones)
            /\ SumaDe(DOMAIN r.porEstado, r.porEstado) = r.cantidad
            /\ SumaDe(DOMAIN r.porMetodoPago, r.porMetodoPago) = r.cantidad

-----------------------------------------------------------------------------
(* Day-sheet of the session ledger *)

D0 == Iso(2025, 6, 1, 0)

RegistrosDiaria ==
    {DatosSesion("p1", D1), DatosSesion("p2", D1fin), DatosSesion("p1", D2),
     DatosSesion("p2", D0), [DatosSesion("p1", D1) EXCEPT !.numeroOrden = 1]}

\* the day asked for, as a 'YYYY-MM-DD' string and as a Date object
FechasPlanilla ==
    {[forma |-> f, iso |-> d] : f \in {"cadena", "date"},
                                d \in {D1, D2, FechaTexto}}

NextDiaria ==
    \/ \E d \in RegistrosDiaria : registrarSesion(d, FALSE)
    \/ \E f \in FechasPlanilla : obtenerPlanillaDiaria(f)

SpecDiaria == InitSesion /\ [][NextDiaria]_vars

\* C21: the day-sheet for day D, asked with a 'YYYY-MM-DD' string or with a
\* Date, holds exactly the sessions whose fecha is in UTC day D, in the order
\* of numeroOrden
PlanillaDelDia ==
    (resSesion.op = "diaria" /\ resSesion.ok) =>
        LET D == NuevaFecha(resSesion.entrada.iso)
            o == resSesion.salida.sesiones
        IN  /\ {o[i] : i \in DOMAIN o}
                  = {x.id : x \in {y \in sesiones : MismoDia(y.fecha, D)}}
            /\ Len(o) = Cardinality({y \in sesiones : MismoDia(y.fecha, D)})
            /\ \A i, k \in DOMAIN o :
                  i < k => Registro(sesiones, o[i]).numeroOrden
                              <= Registro(sesiones, o[k]).numeroOrden

-----------------------------------------------------------------------------
(* Payroll ledger: upserts in flight at the same time *)

DatosEnVuelo ==
    {Datos(F1, Num(100), SinDistribucion), Datos(F1, Num(200), SinDistribucion),
     Datos(F2, Num(100), SinDistribucion),
     Datos(FechaTexto, Num(100), SinDistribucion)}

NextUpsert ==
    \/ \E c \in Llamadas, d \in DatosEnVuelo, u \in Usuarios :
          buscarUpsert(c, d, u)
    \/ \E c \in Llamadas : guardarUpsert(c)

SpecUpsert == InitPago /\ [][NextUpsert]_vars

\* C22: when two crearOActualizarPago calls for one key have both ended,
\* however their find and save steps interleaved, both have succeeded and
\* exactly one entry has the key
UpsertConverge ==
    (/\ enVuelo[1].pc = "hecha" /\ enVuelo[2].pc = "hecha"
     /\ enVuelo[1].clave # << >>
     /\ enVuelo[1].clave = enVuelo[2].clave)
        => /\ enVuelo[1].ok /\ enVuelo[2].ok
           /\ Cardinality({p \in pagos : Clave(p) = enVuelo[1].clave}) = 1

-----------------------------------------------------------------------------
(* Session ledger: calls in flight at the same time *)

RegistrosEnVuelo ==
    {DatosSesion("p1", D1), DatosSesion("p1", D2), DatosSesion("p2", D1),
     DatosSesion("px", D1)}

NextEnVuelo ==
    \/ \E c \in Llamadas, d \in RegistrosEnVuelo : leerRegistro(c, d)
    \/ \E c \in Llamadas : insertarSesion(c)
    \/ \E c \in Llamadas : agregarEnVuelo(c)
    \/ \E c \in Llamadas : actualizarPaciente(c)
    \/ \E c \in Llamadas, id \in 1..MaxSesiones, f \in {FechaAusente, D2} :
          crearReprogramada(c, id, <<"g">>, f)
    \/ \E c \in Llamadas : guardarCancelada(c)

SpecEnVuelo == InitSesion /\ [][NextEnVuelo]_vars

\* call c is a registration that has gone through its insert
Insertada(c) ==
    /\ enVuelo[c].pc \in {"agregar", "actualizar", "hecha"}
    /\ enVuelo[c].op = "registrar"
    /\ enVuelo[c].error \notin {"noEncontrado", "fecha"}

\* both calls are registrations that read before either of them inserted:
\* they saw the same sessions, and neither saw the other's
LeyeronAntes ==
    /\ Insertada(1) /\ Insertada(2)
    /\ enVuelo[1].vistas = enVuelo[2].vistas
    /\ enVuelo[1].id \notin enVuelo[2].vistas
    /\ enVuelo[2].id \notin enVuelo[1].vistas

\* C23: two registrarSesion calls that both read before either inserts are
\* both stored as they were numbered: with the same numeroOrden when they are
\* for the same UTC day and with the same numeroSesion when they are for the
\* same patient; neither insert is rejected or renumbered
NumerosDuplicados ==
    LeyeronAntes =>
        /\ enVuelo[1].error = "" /\ enVuelo[2].error = ""
        /\ Existe(sesiones, enVuelo[1].id) /\ Existe(sesiones, enVuelo[2].id)
        /\ LET x == Registro(sesiones, enVuelo[1].id)
               y == Registro(sesiones, enVuelo[2].id)
           IN  /\ x.id # y.id
               /\ MismoDia(x.fecha, y.fecha) => x.numeroOrden = y.numeroOrden
               /\ x.paciente = y.paciente => x.numeroSesion = y.numeroSesion

\* C23 witness: two registrations of p1 for 2025-07-01 that both read the
\* empty store have returned, and both sessions are stored with numeroOrden 1
\* and numeroSesion 1
NumerosDuplicadosTestigo ==
    /\ LeyeronAntes
    /\ enVuelo[1].pc = "hecha" /\ enVuelo[2].pc = "hecha"
    /\ LET x == Registro(sesiones, enVuelo[1].id)
           y == Registro(sesiones, enVuelo[2].id)
       IN  /\ x.paciente = "p1" /\ y.paciente = "p1"
           /\ x.fecha = NuevaFecha(D1) /\ y.fecha = NuevaFecha(D1)
           /\ x.numeroOrden = 1 /\ y.numeroOrden = 1
           /\ x.numeroSesion = 1 /\ y.numeroSesion = 1

\* C26: while a cancelarSesion with a new date is between its two writes, the
\* store never holds its 'reprogramada' session next to an original that is
\* not 'cancelada' and has no sesionReprogramada link
CancelaAntesDeCrear ==
    \A c \in Llamadas :
        (enVuelo[c].pc = "guardar" /\ enVuelo[c].nueva # 0
         /\ Existe(sesiones, enVuelo[c].id))
            => ~(/\ Existe(sesiones, enVuelo[c].nueva)
                 /\ Registro(sesiones, enVuelo[c].nueva).estado
                       = "reprogramada"
                 /\ Registro(sesiones, enVuelo[c].id).estado # "cancelada"
                 /\ Registro(sesiones, enVuelo[c].id).sesionReprogramada = 0)

\* C28: once two concurrent registrations for one patient have both
\* returned, the patient's stored estadisticas are the aggregation over all
\* of the patient's sessions, whatever the interleaving of their steps
EstadisticasTrasCarrera ==
    (/\ Insertada(1) /\ Insertada(2)
     /\ enVuelo[1].pc = "hecha" /\ enVuelo[2].pc = "hecha"
     /\ enVuelo[1].paciente = enVuelo[2].paciente)
        => estadisticas[enVuelo[1].paciente]
              = Agregado(DelPaciente(sesiones, enVuelo[1].paciente))

=============================================================================
